---------------------------- MODULE Spec2Model ----------------------------
(***************************************************************************)
(* State-machine model of the baltimorebird backend: per-user file store   *)
(* with quota (user_storage.py), session store and rate limiter (auth.py), *)
(* analysis sandbox (sandbox.py) and the convert / concat task pipeline    *)
(* (converter.py, server.py).                                              *)
(*                                                                         *)
(* Each subsystem has its own variables, initial condition and next-state  *)
(* relation; a subsystem's specification leaves the variables of the other *)
(* subsystems unchanged.                                                   *)
(***************************************************************************)
EXTENDS Integers, Sequences, FiniteSets, TLC

VARIABLES
    \* ---- file store (user_storage.py) ----
    rows,           \* stored_files table: file id -> row or NoRow
    disk,           \* on-disk files: file id -> content tag or NoFile
    quotas,         \* user_quotas table: user -> quota (MiB) or NoQuota
    quotaChanged,   \* history: set_quota has been called for the user
    upload_locks,   \* StorageManager._upload_locks: user -> holder or NoThread
    th,             \* per request thread: position and arguments of its call
    ret,            \* what the call that returned last returned or raised
    nextId,         \* number of file ids handed out by uuid4 so far
    \* ---- clock ----
    now,            \* time.time() / datetime.now(), in seconds
    \* ---- rate limiter (auth.py) ----
    attempts,       \* RateLimiter._attempts: key -> sequence of timestamps
    lockouts,       \* RateLimiter._lockouts: key -> end of lockout or NoTime
    rl_ret,         \* the rate limiter call that returned last and its result
    calls,          \* history of the observed key: times of the record_attempt
                    \*   calls since the last reset (the last K of them)
    began,          \* history: time the K-th of them within W was made
    good,           \* history: as calls, without the calls a lockout refused
    goodBegan,      \* history: as began, for good
    \* ---- session store (auth.py) ----
    sessions,       \* sessions table: token -> row or NoSession
    s_ret,          \* the session store call that returned last and its result
    \* ---- analysis sandbox (sandbox.py) ----
    sb_pc,          \* position of the safe_execute call
    sb_code,        \* the code it was given
    child,          \* state of the multiprocessing.Process it started
    sb_queue,       \* what the child has put on result_queue
    sb_result,      \* what safe_execute returned or raised
    spawned,        \* history: process.start() has been called in this call
    timed_out,      \* history: the child was alive when join(timeout) returned
    \* ---- convert / concat tasks (converter.py, server.py) ----
    tasks,          \* ConversionManager.tasks and ConcatenationManager.tasks:
                    \*   task id -> record or NoTask
    worker,         \* per task: position of its worker thread
    next_sweep,     \* time at which the sleep of cleanup_loop ends
    filtered_files, \* temp_filtered_<task>_<i>.mf4 files of the concat task that
                    \*   are on disk: the set of their indices i
    \* ---- accounts (auth.py) ----
    accounts,       \* users table: user id -> row or NoAccount
    req,            \* per request thread: position, arguments and user object
    nminted,        \* number of tokens generate_token has returned so far
    a_ret,          \* the account request that returned last and its result
    \* ---- signal views (core/downsampling.py, server.py, lazy_eda.py) ----
    lttb_call,      \* the lttb_downsample call made last and what it returned
    datastore,      \* MultiSourceDataStore.signals of the loaded source
    view_ret,       \* the view request in flight or answered last, and the
                    \*   response to it
    lazy,           \* LazyEDAManager.sessions: the sessions in insertion order
    lazy_ret,       \* the LazyEDAManager call that returned last and its result
    \* ---- login and register behind the rate limiter (auth.py) ----
    guard,          \* per request thread: position of its login or register
    \* ---- scripts and layouts on disk (scripts_api.py, layouts_api.py) ----
    docs,           \* per kind and directory, the JSON files: id -> content or NoFile
    doc_ret,        \* the script or layout request answered last and its status
    \* ---- the document of the save_json calls (user_storage.py) ----
    json_doc,       \* the data argument the save_json calls of the behaviour are made with
    \* ---- a computed variable being evaluated (computed_variables.py) ----
    formula,        \* the formula, a sequence of tokens
    f_pc,           \* start, eval or done
    f_pos,          \* the token eval is at
    reached,        \* the names and attributes eval has resolved
    f_result,       \* none, the refusal, or evaluated
    \* ---- a path being checked (server.py, user_storage.py, scripts_api.py, core/security.py) ----
    base_dir,       \* the directory, a sequence of components
    requested_path, \* the path, a sequence of components
    safe_ret,       \* what each is_safe_path has returned, none before the call
    \* ---- the metrics collector (metrics.py) ----
    m_pc,           \* where each thread is in record_request or in cleanup_loop
    m_lock,         \* the thread that holds MetricsCollector._lock, or free
    request_buffer, \* the number of entries of request_buffer
    daily_stats,    \* whether requests have been aggregated
    \* ---- one lazy session under concurrent requests (lazy_eda.py) ----
    ls_session,     \* the LazySession object the request threads share
    ls_registered,  \* whether LazyEDAManager.sessions holds the session
    ls_open,        \* the decoder handles that are open, each named by the thread that opened it
    ls_th,          \* where each request thread is in its call, and its local variables
    ls_loaded,      \* the indices of the signals whose data is loaded
    \* ---- the outcome a sandbox worker has put and that is not yet in the pipe (sandbox.py) ----
    sb_put          \* the outcome, and whether safe_execute was in join(timeout_seconds) at the put

storageVars == <<rows, disk, quotas, quotaChanged, upload_locks, th, ret, nextId>>
rlVars == <<attempts, lockouts, rl_ret, calls, began, good, goodBegan>>
sessionVars == <<sessions, s_ret>>
sandboxVars == <<sb_pc, sb_code, child, sb_queue, sb_result, spawned, timed_out>>
taskVars == <<tasks, worker, next_sweep, filtered_files>>
accountVars == <<accounts, req, nminted, a_ret>>
viewVars == <<lttb_call, datastore, view_ret, lazy, lazy_ret>>
guardVars == <<guard>>
docVars == <<docs, doc_ret>>
jsonVars == <<json_doc>>
formulaVars == <<formula, f_pc, f_pos, reached, f_result>>
pathVars == <<base_dir, requested_path, safe_ret>>
metricVars == <<m_pc, m_lock, request_buffer, daily_stats>>
lazyOpVars == <<ls_session, ls_registered, ls_open, ls_th, ls_loaded>>
reportVars == <<sb_put>>
serviceVars == <<guardVars, docVars, jsonVars, formulaVars, pathVars, metricVars, lazyOpVars, reportVars>>

vars == <<storageVars, now, rlVars, sessionVars, sandboxVars, taskVars, accountVars,
          viewVars, serviceVars>>

\* the variables outside each component
notStorage == <<now, rlVars, sessionVars, sandboxVars, taskVars, accountVars,
    viewVars, serviceVars>>
notRl == <<storageVars, sessionVars, sandboxVars, taskVars, accountVars,
    viewVars, serviceVars>>
notSessions == <<storageVars, rlVars, sandboxVars, taskVars, accountVars,
    viewVars, serviceVars>>
notSandbox == <<storageVars, now, rlVars, sessionVars, taskVars, accountVars,
    viewVars, serviceVars>>
notTasks == <<storageVars, now, rlVars, sessionVars, sandboxVars, accountVars,
    viewVars, serviceVars>>
\* the account routes write the sessions table as well
notAccounts == <<storageVars, now, rlVars, s_ret, sandboxVars, taskVars, viewVars, serviceVars>>
\* the guarded routes call the rate limiter, which reads the clock
notGuard == <<storageVars, sessionVars, sandboxVars, taskVars, accountVars, viewVars,
    docVars, jsonVars, formulaVars, pathVars, metricVars, lazyOpVars, reportVars>>
notDocs == <<storageVars, now, rlVars, sessionVars, sandboxVars, taskVars, accountVars,
    viewVars, guardVars, jsonVars, formulaVars, pathVars, metricVars, lazyOpVars,
    reportVars>>
notReport == <<storageVars, now, rlVars, sessionVars, taskVars, accountVars, viewVars,
    guardVars, docVars, jsonVars, formulaVars, pathVars, metricVars, lazyOpVars>>
notLazyOps == <<storageVars, now, rlVars, sessionVars, sandboxVars, taskVars,
    accountVars, viewVars, guardVars, docVars, jsonVars, formulaVars, pathVars,
    metricVars, reportVars>>
notMetrics == <<storageVars, now, rlVars, sessionVars, sandboxVars, taskVars,
    accountVars, viewVars, guardVars, docVars, jsonVars, formulaVars, pathVars,
    lazyOpVars, reportVars>>
notPaths == <<storageVars, now, rlVars, sessionVars, sandboxVars, taskVars,
    accountVars, viewVars, guardVars, docVars, jsonVars, formulaVars, metricVars,
    lazyOpVars, reportVars>>
notFormula == <<storageVars, now, rlVars, sessionVars, sandboxVars, taskVars,
    accountVars, viewVars, guardVars, docVars, jsonVars, pathVars, metricVars,
    lazyOpVars, reportVars>>
\* the lazy sessions read the clock
notView == <<storageVars, rlVars, sessionVars, sandboxVars, taskVars, accountVars,
    serviceVars>>

-----------------------------------------------------------------------------
(***************************************************************************)
(* File store.  Sizes are counted in MiB.                                  *)
(***************************************************************************)

\* ---- bounds of the file-store model ----
MaxFiles == 2            \* user file ids handed out in one behaviour
InitQuota == 3           \* quota (MiB) a user_quotas row holds at start-up
LowQuota == 2            \* quota (MiB) the admin route sets

\* ---- program constants (MiB) ----
DEFAULT_QUOTA_BYTES == 5120      \* 5 GiB
MAX_JSON_SIZE_BYTES == 5         \* 5 MiB
MAX_FILES_PER_USER == 1000
MAX_FILES_PER_CATEGORY == 200

Users == {"A", "B"}
BadUser == "not-a-uuid"
NULL == "NULL"                   \* SQL NULL / Python None
NoRow == [user_id |-> "NoRow", category |-> "none", size_bytes |-> 0,
          description |-> "", metadata |-> ""]
NoFile == "NoFile"
NoQuota == -1
NoThread == 0
Threads == {1, 2}                \* concurrent request threads
DefaultFile == 0                 \* the demo file registered at start-up
FileIds == 0..MaxFiles
BadFileId == -1                  \* a file id that is not a UUID
NoId == -2                       \* None where a file id or a row is expected

CATEGORIES == {"mf4", "layouts"}
JsonCategories == {"layouts", "mappings", "analyses"}
MaxSizeMb(category) == IF category = "mf4" THEN 2000 ELSE 5
Sizes == {1, 2}                  \* upload sizes (MiB)
UploadCategories == {"layouts", "exe"}   \* category arguments of uploads
Descriptions == {"d1"}
Metadatas == {"m1"}

\* is_valid_uuid, on the values used as user ids and as file ids
is_valid_uuid(value) == value \in Users

is_valid_file_uuid(value) == value \in FileIds

validate_category(category) == category \in CATEGORIES

Row(u, c, s, d, m) ==
    [user_id |-> u, category |-> c, size_bytes |-> s, description |-> d, metadata |-> m]

RECURSIVE SumSizes(_, _)
SumSizes(S, u) ==
    IF S = {} THEN 0
    ELSE LET f == CHOOSE x \in S : TRUE
         IN (IF rows[f] # NoRow /\ rows[f].user_id = u THEN rows[f].size_bytes ELSE 0)
            + SumSizes(S \ {f}, u)

get_quota(u) ==
    IF ~is_valid_uuid(u) THEN DEFAULT_QUOTA_BYTES
    ELSE IF quotas[u] = NoQuota THEN DEFAULT_QUOTA_BYTES ELSE quotas[u]

get_used_space(u) == IF ~is_valid_uuid(u) THEN 0 ELSE SumSizes(FileIds, u)

count_files(u) ==
    IF ~is_valid_uuid(u) THEN 0
    ELSE Cardinality({f \in FileIds : rows[f] # NoRow /\ rows[f].user_id = u})

count_files_cat(u, c) ==
    IF ~is_valid_uuid(u) \/ ~validate_category(c) THEN 0
    ELSE Cardinality({f \in FileIds : rows[f] # NoRow /\ rows[f].user_id = u
                                       /\ rows[f].category = c})

\* Mutant of can_upload: the quota test ignores the size of the new file.
can_upload_noSize(u, file_size, category) ==
    IF ~validate_category(category) THEN "Catégorie invalide"
    ELSE IF ~is_valid_uuid(u) THEN "User ID invalide"
    ELSE IF file_size > MaxSizeMb(category) THEN "Fichier trop volumineux"
    ELSE IF get_used_space(u) > get_quota(u) THEN "Quota dépassé"
    ELSE IF count_files(u) >= MAX_FILES_PER_USER THEN "Limite de fichiers atteinte"
    ELSE IF count_files_cat(u, category) >= MAX_FILES_PER_CATEGORY
         THEN "Limite de fichiers pour cette catégorie atteinte"
    ELSE "ok"

\* can_upload: "ok" or the error message
can_upload(u, file_size, category) ==
    IF ~validate_category(category) THEN "Catégorie invalide"
    ELSE IF ~is_valid_uuid(u) THEN "User ID invalide"
    ELSE IF file_size > MaxSizeMb(category) THEN "Fichier trop volumineux"
    ELSE IF get_used_space(u) + file_size > get_quota(u) THEN "Quota dépassé"
    ELSE IF count_files(u) >= MAX_FILES_PER_USER THEN "Limite de fichiers atteinte"
    ELSE IF count_files_cat(u, category) >= MAX_FILES_PER_CATEGORY
         THEN "Limite de fichiers pour cette catégorie atteinte"
    ELSE "ok"

\* Mutant of get_file: the owner filter of the SELECT is dropped.
get_file_noOwner(file_id, u) ==
    IF ~is_valid_file_uuid(file_id) THEN NoId
    ELSE IF u # NULL /\ ~is_valid_uuid(u) THEN NoId
    ELSE IF rows[file_id] # NoRow THEN file_id ELSE NoId

\* get_file: the id of the row the SELECT returns, or NoId.  A truthy
\* user_id restricts the SELECT to the user's rows and the default rows.
get_file(file_id, u) ==
    IF ~is_valid_file_uuid(file_id) THEN NoId
    ELSE IF u # NULL
         THEN IF ~is_valid_uuid(u) THEN NoId
              ELSE IF rows[file_id] # NoRow /\ rows[file_id].user_id \in {u, NULL}
                   THEN file_id ELSE NoId
         ELSE IF rows[file_id] # NoRow THEN file_id ELSE NoId

\* get_file_path: the path (named by the file id) or NoId
get_file_path(file_id, u) ==
    LET sf == get_file(file_id, u)
    IN IF sf = NoId THEN NoId
       ELSE IF disk[sf] # NoFile THEN sf ELSE NoId

\* read_json: the possible results of reading the file as JSON
read_json(file_id, u) ==
    LET p == get_file_path(file_id, u)
    IN IF p = NoId THEN {NULL}
       ELSE IF rows[p].category \in JsonCategories THEN {disk[p]}
       ELSE {NULL, "UnicodeDecodeError"}

NoCall == [op |-> "none", file |-> NoId, user |-> NULL, val |-> "none"]

IdleThread == [pc |-> "idle", op |-> "none", user |-> NULL, file |-> NoId,
               category |-> "none", size |-> 0]

\* Fresh database: only the demo file is registered (_scan_default_files);
\* user A has a user_quotas row, user B has none (get_quota's default).
FreshStore ==
    /\ rows = [f \in FileIds |->
                 IF f = DefaultFile THEN Row(NULL, "mf4", 1, "demo", "{}") ELSE NoRow]
    /\ disk = [f \in FileIds |-> IF f = DefaultFile THEN "bytes" ELSE NoFile]
    /\ quotas = [u \in Users |-> IF u = "A" THEN InitQuota ELSE NoQuota]
    /\ quotaChanged = [u \in Users |-> FALSE]
    /\ upload_locks = [u \in Users |-> NoThread]
    /\ th = [t \in Threads |-> IdleThread]
    /\ ret = NoCall
    /\ nextId = 0

\* A database that already holds the demo file, a file of A (id 1, category
\* mf4) and a file of B (id 2, category layouts), all three on disk.
OwnerOf(f) == IF f = DefaultFile THEN NULL ELSE IF f = 1 THEN "A" ELSE "B"

PopulatedIds == {DefaultFile, 1, 2}

PopulatedStore ==
    /\ rows = [f \in FileIds |->
                 IF f \notin PopulatedIds THEN NoRow
                 ELSE Row(OwnerOf(f), IF f = 2 THEN "layouts" ELSE "mf4", 1,
                          IF f = DefaultFile THEN "demo" ELSE "", "{}")]
    /\ disk = [f \in FileIds |-> IF f \notin PopulatedIds THEN NoFile ELSE "bytes"]
    /\ quotas = [u \in Users |-> NoQuota]
    /\ quotaChanged = [u \in Users |-> FALSE]
    /\ upload_locks = [u \in Users |-> NoThread]
    /\ th = [t \in Threads |-> IdleThread]
    /\ ret = NoCall
    /\ nextId = MaxFiles

\* the call op of thread t returns r (or raises r); f and u are the file
\* and the user of a call on an existing file
Return(t, op, f, u, r) ==
    /\ th' = [th EXCEPT ![t] = IdleThread]
    /\ ret' = [op |-> op, file |-> f, user |-> u, val |-> r]

\* save_file / save_json up to the per-user lock: argument validation
SaveBegin(t, op, u, category, size) ==
    /\ th[t].pc = "idle"
    /\ nextId < MaxFiles
    /\ IF \/ ~is_valid_uuid(u)
          \/ op = "save_file" /\ ~validate_category(category)
          \/ op = "save_json" /\ category \notin JsonCategories
          \/ op = "save_json" /\ size > MAX_JSON_SIZE_BYTES
       THEN Return(t, op, NoId, NULL, "ValueError")
       ELSE /\ th' = [th EXCEPT ![t] = [pc |-> "acquire", op |-> op, user |-> u,
                         file |-> NoId, category |-> category, size |-> size]]
            /\ UNCHANGED ret
    /\ UNCHANGED <<rows, disk, quotas, quotaChanged, upload_locks, nextId>>
    /\ UNCHANGED notStorage

\* Mutant of LockFree: the per-user lock is never found taken.
LockFree_noLock(u) == TRUE

\* threading.Lock of the user (_get_user_lock): free or held
LockFree(u) == upload_locks[u] = NoThread

\* with self._get_user_lock(user_id): blocks until the lock is free
SaveAcquire(t) ==
    /\ th[t].pc = "acquire"
    /\ LockFree(th[t].user)
    /\ upload_locks' = [upload_locks EXCEPT ![th[t].user] = t]
    /\ th' = [th EXCEPT ![t].pc = "check"]
    /\ UNCHANGED <<rows, disk, quotas, quotaChanged, ret, nextId>>
    /\ UNCHANGED notStorage

\* can_upload under the lock; a refusal raises ValueError and releases the lock
SaveCheck(t) ==
    /\ th[t].pc = "check"
    /\ LET msg == can_upload(th[t].user, th[t].size, th[t].category)
       IN IF msg # "ok"
          THEN /\ Return(t, th[t].op, NoId, NULL, msg)
               /\ upload_locks' = [upload_locks EXCEPT ![th[t].user] = NoThread]
               /\ UNCHANGED nextId
          ELSE /\ nextId' = nextId + 1
               /\ th' = [th EXCEPT ![t].pc = "write", ![t].file = nextId + 1]
               /\ UNCHANGED <<upload_locks, ret>>
    /\ UNCHANGED <<rows, disk, quotas, quotaChanged>>
    /\ UNCHANGED notStorage

\* file.save(file_path) / file_path.write_text(json_str)
SaveWrite(t) ==
    /\ th[t].pc = "write"
    /\ disk' = [disk EXCEPT ![th[t].file] = "bytes"]
    /\ th' = [th EXCEPT ![t].pc = "insert"]
    /\ UNCHANGED <<rows, quotas, quotaChanged, upload_locks, ret, nextId>>
    /\ UNCHANGED notStorage

\* INSERT INTO stored_files, commit, leave the with-block of the lock
SaveInsert(t) ==
    /\ th[t].pc = "insert"
    /\ rows' = [rows EXCEPT ![th[t].file] =
                  Row(th[t].user, th[t].category, th[t].size, "", "{}")]
    /\ upload_locks' = [upload_locks EXCEPT
                          ![th[t].user] = IF @ = t THEN NoThread ELSE @]
    /\ Return(t, th[t].op, NoId, NULL, "stored")
    /\ UNCHANGED <<disk, quotas, quotaChanged, nextId>>
    /\ UNCHANGED notStorage

\* delete_file up to the unlink: lookup, ownership checks, file_path.unlink()
DeleteBegin(t, f, u) ==
    /\ th[t].pc = "idle"
    /\ IF ~is_valid_file_uuid(f) \/ ~is_valid_uuid(u)
       THEN Return(t, "delete_file", f, u, "False") /\ UNCHANGED disk
       ELSE LET sf == get_file(f, u)
            IN IF sf = NoId
               THEN Return(t, "delete_file", f, u, "False") /\ UNCHANGED disk
               ELSE IF rows[sf].user_id = NULL
               THEN Return(t, "delete_file", f, u, "ValueError") /\ UNCHANGED disk
               ELSE IF rows[sf].user_id # u
               THEN Return(t, "delete_file", f, u, "ValueError") /\ UNCHANGED disk
               ELSE /\ disk' = [disk EXCEPT ![f] = NoFile]
                    /\ th' = [th EXCEPT ![t] = [IdleThread EXCEPT !.pc = "delete_row",
                                 !.op = "delete_file", !.user = u, !.file = f]]
                    /\ UNCHANGED ret
    /\ UNCHANGED <<rows, quotas, quotaChanged, upload_locks, nextId>>
    /\ UNCHANGED notStorage

\* DELETE FROM stored_files WHERE id = ? AND user_id = ?
DeleteRow(t) ==
    /\ th[t].pc = "delete_row"
    /\ LET f == th[t].file
           hit == rows[f] # NoRow /\ rows[f].user_id = th[t].user
       IN /\ rows' = IF hit THEN [rows EXCEPT ![f] = NoRow] ELSE rows
          /\ Return(t, "delete_file", f, th[t].user, IF hit THEN "True" ELSE "False")
    /\ UNCHANGED <<disk, quotas, quotaChanged, upload_locks, nextId>>
    /\ UNCHANGED notStorage

\* Mutant of update_allowed: the default-file and ownership tests are dropped.
update_allowed_noCheck(sf, u) == sf # NoId

\* update_file: the guard in front of the UPDATE
update_allowed(sf, u) ==
    sf # NoId /\ rows[sf].user_id # NULL /\ rows[sf].user_id = u

\* update_file(file_id, user_id, description, metadata); NULL stands for an
\* argument that is not given
UpdateFile(t, f, u, d, m) ==
    /\ th[t].pc = "idle"
    /\ IF ~is_valid_file_uuid(f) \/ ~is_valid_uuid(u)
       THEN Return(t, "update_file", f, u, "False") /\ UNCHANGED rows
       ELSE LET sf == get_file(f, u)
            IN IF ~update_allowed(sf, u)
               THEN Return(t, "update_file", f, u, "False") /\ UNCHANGED rows
               ELSE /\ rows' = [rows EXCEPT ![f] =
                                  [@ EXCEPT !.description = IF d = NULL THEN @ ELSE d,
                                            !.metadata = IF m = NULL THEN @ ELSE m]]
                    /\ Return(t, "update_file", f, u, "True")
    /\ UNCHANGED <<disk, quotas, quotaChanged, upload_locks, nextId>>
    /\ UNCHANGED notStorage

\* get_file / get_file_path / read_json called by a request thread
ReadFile(t, op, f, u) ==
    /\ th[t].pc = "idle"
    /\ \/ /\ op = "get_file"
          /\ Return(t, op, f, u, IF get_file(f, u) = NoId THEN "None" ELSE "row")
       \/ /\ op = "get_file_path"
          /\ Return(t, op, f, u, IF get_file_path(f, u) = NoId THEN "None" ELSE "path")
       \/ /\ op = "read_json"
          /\ \E r \in read_json(f, u) :
               Return(t, op, f, u, IF r = NULL THEN "None"
                         ELSE IF r = "UnicodeDecodeError" THEN r ELSE "content")
    /\ UNCHANGED <<rows, disk, quotas, quotaChanged, upload_locks, nextId>>
    /\ UNCHANGED notStorage

\* set_quota(user_id, quota_bytes), called by the admin route
SetQuota(u, q) ==
    /\ quotas[u] # q
    /\ quotas' = [quotas EXCEPT ![u] = q]
    /\ quotaChanged' = [quotaChanged EXCEPT ![u] = TRUE]
    /\ UNCHANGED <<rows, disk, upload_locks, th, ret, nextId>>
    /\ UNCHANGED notStorage

-----------------------------------------------------------------------------
(***************************************************************************)
(* Clock.  Each specification lets the time pass in steps of its own.      *)
(***************************************************************************)

NoTime == -1

\* d seconds pass; the behaviour ends at time max
Advance(d, max) ==
    /\ now + d <= max
    /\ now' = now + d
    /\ UNCHANGED <<storageVars, rlVars, sessionVars, sandboxVars, taskVars, accountVars,
                   viewVars, serviceVars>>

-----------------------------------------------------------------------------
(***************************************************************************)
(* Rate limiter (auth.py, class RateLimiter).  Every method runs under     *)
(* self._lock, so each call is one step.                                   *)
(***************************************************************************)

\* ---- bounds of the rate-limiter model ----
RlTick == 450            \* seconds between two readings of the clock
RlMaxTime == 2250        \* last reading of the clock

\* ---- program constants (seconds, attempts) ----
RATE_LIMIT_WINDOW == 900
RATE_LIMIT_MAX_ATTEMPTS == 5
RATE_LIMIT_LOCKOUT == 1800

Keys == {"ip1", "ip2"}
Observed == "ip1"                \* the key whose calls the history follows

NoRlCall == [op |-> "none", key |-> "none", at |-> 0, ok |-> FALSE, n |-> 0]

RlReturn(op, k, ok, n) == rl_ret' = [op |-> op, key |-> k, at |-> now, ok |-> ok, n |-> n]

RlInit ==
    /\ attempts = [k \in Keys |-> << >>]
    /\ lockouts = [k \in Keys |-> NoTime]
    /\ rl_ret = NoRlCall
    /\ calls = << >>
    /\ began = NoTime
    /\ good = << >>
    /\ goodBegan = NoTime

\* Mutant of cleanup_old_attempts: no attempt is dropped.
cleanup_old_attempts_keepsAll(list, t) == list

\* _cleanup_old_attempts: the timestamps of the list inside the window
cleanup_old_attempts(list, t) ==
    LET cutoff == t - RATE_LIMIT_WINDOW
    IN SelectSeq(list, LAMBDA x : x > cutoff)

\* History: the period of L seconds that starts at time b holds at time t.
InPeriod(b, t) == b # NoTime /\ t < b + RATE_LIMIT_LOCKOUT

\* History: the last K call times of a log after a call at time t, those
\* less than W seconds old, and whether the call at t is the K-th of them.
Logged(log, t) ==
    LET l == Append(SelectSeq(log, LAMBDA x : x > t - RATE_LIMIT_WINDOW), t)
    IN IF Len(l) > RATE_LIMIT_MAX_ATTEMPTS THEN Tail(l) ELSE l

KthWithinW(log) == Len(log) >= RATE_LIMIT_MAX_ATTEMPTS

\* is_locked(key)
is_locked(k) ==
    /\ IF lockouts[k] # NoTime /\ lockouts[k] - now > 0
       THEN /\ RlReturn("is_locked", k, TRUE, lockouts[k] - now)
            /\ UNCHANGED lockouts
       ELSE /\ RlReturn("is_locked", k, FALSE, 0)
            /\ lockouts' = [lockouts EXCEPT ![k] = NoTime]
    /\ UNCHANGED <<now, attempts, calls, began, good, goodBegan>>

\* is_locked(key) called on its own
IsLocked(k) == is_locked(k) /\ UNCHANGED notRl

\* Mutant of LockoutEnd: the lockout lasts as long as the window.
LockoutEnd_window(t) == t + RATE_LIMIT_WINDOW

\* record_attempt: self._lockouts[key] = now + RATE_LIMIT_LOCKOUT
LockoutEnd(t) == t + RATE_LIMIT_LOCKOUT

\* record_attempt(key)
record_attempt(k) ==
    /\ IF lockouts[k] # NoTime /\ lockouts[k] > now
       THEN /\ RlReturn("record_attempt", k, FALSE, 0)
            /\ UNCHANGED <<attempts, lockouts>>
       ELSE LET list == Append(cleanup_old_attempts(attempts[k], now), now)
                attempt_count == Len(list)
            IN IF attempt_count >= RATE_LIMIT_MAX_ATTEMPTS
               THEN /\ lockouts' = [lockouts EXCEPT ![k] = LockoutEnd(now)]
                    /\ attempts' = [attempts EXCEPT ![k] = << >>]
                    /\ RlReturn("record_attempt", k, FALSE, 0)
               ELSE /\ attempts' = [attempts EXCEPT ![k] = list]
                    /\ RlReturn("record_attempt", k, TRUE,
                                RATE_LIMIT_MAX_ATTEMPTS - attempt_count)
                    /\ UNCHANGED lockouts
    \* history of the calls on the observed key
    /\ IF k # Observed
       THEN UNCHANGED <<calls, began>>
       ELSE LET log == Logged(calls, now)
            IN /\ calls' = log
               /\ began' = IF InPeriod(began, now) THEN began
                            ELSE IF KthWithinW(log) THEN now ELSE NoTime
    /\ IF k # Observed \/ InPeriod(goodBegan, now)
       THEN UNCHANGED <<good, goodBegan>>
       ELSE LET log == Logged(good, now)
            IN /\ good' = log
               /\ goodBegan' = IF KthWithinW(log) THEN now ELSE NoTime
    /\ UNCHANGED now

\* record_attempt(key) called on its own
RecordAttempt(k) == record_attempt(k) /\ UNCHANGED notRl

\* Mutant of reset: the attempts are dropped, a lockout stays.
reset_keepsLockout(k) ==
    /\ attempts' = [attempts EXCEPT ![k] = << >>]
    /\ RlReturn("reset", k, FALSE, 0)
    /\ UNCHANGED <<now, lockouts, calls, began, good, goodBegan>>

\* reset(key)
reset(k) ==
    /\ attempts' = [attempts EXCEPT ![k] = << >>]
    /\ lockouts' = [lockouts EXCEPT ![k] = NoTime]
    /\ RlReturn("reset", k, FALSE, 0)
    /\ IF k # Observed
       THEN UNCHANGED <<calls, began, good, goodBegan>>
       ELSE calls' = << >> /\ began' = NoTime /\ good' = << >> /\ goodBegan' = NoTime
    /\ UNCHANGED now

\* reset(key) called on its own
Reset(k) == reset(k) /\ UNCHANGED notRl

-----------------------------------------------------------------------------
(***************************************************************************)
(* Session store (auth.py, class UserStore).                               *)
(***************************************************************************)

\* ---- bounds of the session-store model ----
SessTick == 302400       \* seconds between two readings of the clock
SessMaxTime == 907200    \* last reading of the clock

\* ---- program constant ----
TOKEN_EXPIRY_HOURS == 168

Tokens == {"tok1", "tok2"}       \* values of generate_token()
UnknownToken == "tok9"           \* a bearer token that was never issued
NonAsciiToken == "tök"           \* a bearer token with a non-ASCII character
BearerTokens == Tokens \cup {UnknownToken, NonAsciiToken}

NoSession == [user_id |-> "none", expires_at |-> NoTime]

NoSessionCall == [op |-> "none", token |-> "none", val |-> "none", session |-> NoSession]

SessionsInit ==
    /\ sessions = [t \in Tokens |-> NoSession]
    /\ s_ret = NoSessionCall

is_ascii(str) == str # NonAsciiToken

\* secrets.compare_digest on two str: "True", "False", or TypeError when
\* one of them holds a non-ASCII character
compare_digest(a, b) ==
    IF ~is_ascii(a) \/ ~is_ascii(b) THEN "TypeError"
    ELSE IF a = b THEN "True" ELSE "False"

\* create_session(user): INSERT INTO sessions
CreateSession(u, token) ==
    /\ sessions[token] = NoSession
    /\ LET row == [user_id |-> u, expires_at |-> now + TOKEN_EXPIRY_HOURS * 3600]
       IN /\ sessions' = [sessions EXCEPT ![token] = row]
          /\ s_ret' = [op |-> "create_session", token |-> token, val |-> "session",
                       session |-> row]
    /\ UNCHANGED now
    /\ UNCHANGED notSessions

\* get_session: datetime.now(expires.tzinfo) > expires
expired(expires_at) == now > expires_at

\* get_session(token): the loop over all rows of the table
GetSession(token) ==
    LET stored == {t \in Tokens : sessions[t] # NoSession}
        digests == {compare_digest(t, token) : t \in stored}
    IN /\ IF "TypeError" \in digests
          THEN /\ s_ret' = [op |-> "get_session", token |-> token, val |-> "TypeError",
                            session |-> NoSession]
               /\ UNCHANGED sessions
          ELSE IF "True" \notin digests
          THEN /\ s_ret' = [op |-> "get_session", token |-> token, val |-> "None",
                            session |-> NoSession]
               /\ UNCHANGED sessions
          ELSE IF expired(sessions[token].expires_at)
          THEN /\ sessions' = [sessions EXCEPT ![token] = NoSession]
               /\ s_ret' = [op |-> "get_session", token |-> token, val |-> "None",
                            session |-> NoSession]
          ELSE /\ s_ret' = [op |-> "get_session", token |-> token, val |-> "session",
                            session |-> sessions[token]]
               /\ UNCHANGED sessions
       /\ UNCHANGED now
       /\ UNCHANGED notSessions

\* delete_session(token)
DeleteSession(token) ==
    /\ sessions' = [t \in Tokens |-> IF t = token THEN NoSession ELSE sessions[t]]
    /\ s_ret' = [op |-> "delete_session", token |-> token,
                 val |-> IF token \in Tokens /\ sessions[token] # NoSession
                         THEN "True" ELSE "False",
                 session |-> NoSession]
    /\ UNCHANGED now
    /\ UNCHANGED notSessions

\* delete_user_sessions(user_id)
DeleteUserSessions(u) ==
    /\ sessions' = [t \in Tokens |-> IF sessions[t].user_id = u THEN NoSession
                                     ELSE sessions[t]]
    /\ s_ret' = [op |-> "delete_user_sessions", token |-> "none", val |-> "None",
                 session |-> NoSession]
    /\ UNCHANGED now
    /\ UNCHANGED notSessions

\* cleanup_expired_sessions(): DELETE FROM sessions WHERE expires_at < now
CleanupExpiredSessions ==
    /\ sessions' = [t \in Tokens |->
                      IF sessions[t] # NoSession /\ sessions[t].expires_at < now
                      THEN NoSession ELSE sessions[t]]
    /\ s_ret' = [op |-> "cleanup_expired_sessions", token |-> "none", val |-> "None",
                 session |-> NoSession]
    /\ UNCHANGED now
    /\ UNCHANGED notSessions

-----------------------------------------------------------------------------
(***************************************************************************)
(* Analysis sandbox (sandbox.py).  A piece of code is a sequence of        *)
(* statements, each one AST node with the identifiers it carries, plus     *)
(* the properties of the source text the validator looks at.               *)
(***************************************************************************)

\* ---- bound of the sandbox model ----
MaxStmts == 2            \* statements of a submitted code

\* ---- program constants ----
MAX_AST_NODES == 10000
MAX_CODE_LENGTH == 500000

ALLOWED_MODULES ==
    {"numpy", "np", "pandas", "pd", "statistics", "math", "decimal", "fractions",
     "collections", "itertools", "functools", "datetime", "re", "string", "json",
     "typing"}

FORBIDDEN_ATTRS ==
    {"__import__", "__loader__", "__spec__", "__builtins__", "__globals__",
     "__locals__", "__code__", "__closure__", "__func__", "__self__", "__dict__",
     "__class__", "__bases__", "__mro__", "__subclasses__", "__init_subclass__",
     "__reduce__", "__reduce_ex__", "_getframe", "_current_frames", "gi_frame",
     "gi_code", "f_globals", "f_locals", "f_code", "f_back", "co_code",
     "func_globals", "func_code", "tb_frame", "tb_next"}

FORBIDDEN_NAMES ==
    {"eval", "exec", "compile", "execfile", "open", "file", "input", "raw_input",
     "reload", "__import__", "globals", "locals", "vars", "dir", "getattr",
     "setattr", "delattr", "memoryview", "bytearray", "breakpoint", "credits",
     "license", "copyright", "exit", "quit", "help"}

dangerous_methods ==
    {"system", "popen", "spawn", "call", "run", "Popen", "listdir", "remove",
     "rmdir", "unlink", "makedirs", "mkdir", "environ", "getenv", "putenv",
     "load", "loads", "dump", "dumps", "read", "write", "readline", "readlines"}

allowed_dunders ==
    {"__name__", "__doc__", "__str__", "__repr__", "__len__", "__iter__",
     "__next__", "__add__", "__sub__", "__mul__", "__truediv__", "__floordiv__",
     "__mod__", "__eq__", "__ne__", "__lt__", "__le__", "__gt__", "__ge__",
     "__bool__", "__int__", "__float__", "__abs__", "__neg__", "__pos__"}

\* the identifiers of the model that start and end with two underscores
DunderIds == {"__builtins__", "__class__", "__len__", "__name__", "__del__",
              "__result__"}

is_dunder(id) == id \in DunderIds

\* One AST node: kind, its identifier (module, name, attribute), a second
\* identifier (alias, imported name, or the name the attribute is taken
\* from), and for a Call the kind of node that is called.
Node(kind, id, aux, func) == [kind |-> kind, id |-> id, aux |-> aux, func |-> func]

Stmts ==
    {Node("Import", "math", NULL, NULL),              \* import math
     Node("Import", "os", NULL, NULL),                \* import os
     Node("Import", "math", "__builtins__", NULL),    \* import math as __builtins__
     Node("ImportFrom", "math", "sqrt", NULL),        \* from math import sqrt
     Node("ImportFrom", "os", "path", NULL),          \* from os import path
     Node("ImportFrom", NULL, "os", NULL),            \* from . import os
     Node("Call", "len", NULL, "Name"),               \* len(...)
     Node("Call", "eval", NULL, "Name"),              \* eval(...)
     Node("Call", "loads", "json", "Attribute"),      \* json.loads(...)
     Node("Call", "system", "x", "Attribute"),        \* x.system(...)
     Node("Attribute", "shape", "x", NULL),           \* x.shape
     Node("Attribute", "__class__", "x", NULL),       \* x.__class__
     Node("Attribute", "__len__", "x", NULL),         \* x.__len__
     Node("Name", "x", NULL, NULL),                   \* x
     Node("Name", "__name__", NULL, NULL),            \* __name__
     Node("Assign", "__result__", NULL, NULL),        \* __result__ = 1
     Node("Global", "x", NULL, NULL),                 \* global x
     Node("Nonlocal", "x", NULL, NULL),               \* nonlocal x
     Node("AsyncFunctionDef", "f", NULL, NULL),       \* async def f(): pass
     Node("AsyncFor", "x", NULL, NULL),               \* async for x in y: pass
     Node("Await", "x", NULL, NULL),                  \* await x
     Node("FunctionDef", "f", NULL, NULL),            \* def f(): pass
     Node("FunctionDef", "__del__", NULL, NULL)}      \* def __del__(self): pass

StmtSeqs == UNION {[1..n -> Stmts] : n \in 0..MaxStmts}

\* A submitted code: its statements, the length of its text, whether it
\* parses, whether an expression of it nests deeper than the interpreter's
\* recursion limit, and the number of its further, harmless AST nodes.
Codes ==
    [stmts : StmtSeqs, length : {100, MAX_CODE_LENGTH + 1}, parses : BOOLEAN,
     deep : BOOLEAN, more_nodes : {0, MAX_AST_NODES}]

\* ---- CodeValidator: the errors each visit method appends ----
visit_Name(id) ==
    (IF id \in FORBIDDEN_NAMES THEN {"Nom interdit"} ELSE {})
    \cup (IF is_dunder(id) THEN {"Nom dunder interdit"} ELSE {})

visit_Attribute(attr, value) ==
    (IF attr \in FORBIDDEN_ATTRS THEN {"Attribut interdit"} ELSE {})
    \cup (IF is_dunder(attr) /\ attr \notin allowed_dunders
          THEN {"Attribut dunder interdit"} ELSE {})
    \cup visit_Name(value)

visit_Call(node) ==
    (IF node.func = "Name" /\ node.id \in FORBIDDEN_NAMES
     THEN {"Fonction interdite"} ELSE {})
    \cup (IF /\ node.func = "Attribute"
             /\ node.id \in dangerous_methods
             /\ ~(node.aux = "json" /\ node.id \in {"loads", "dumps", "load", "dump"})
          THEN {"Methode potentiellement dangereuse"} ELSE {})
    \cup (IF node.func = "Name" THEN visit_Name(node.id)
          ELSE visit_Attribute(node.id, node.aux))

visit_Import(node) ==
    IF node.id \notin ALLOWED_MODULES THEN {"Import interdit"} ELSE {}

visit_ImportFrom(node) ==
    IF node.id # NULL /\ node.id \notin ALLOWED_MODULES
    THEN {"Import interdit"} ELSE {}

\* NodeVisitor.visit: dispatch on the kind of node; a kind without a visit
\* method is walked by generic_visit
visit(node) ==
    CASE node.kind = "Import" -> visit_Import(node)
      [] node.kind = "ImportFrom" -> visit_ImportFrom(node)
      [] node.kind = "Call" -> visit_Call(node)
      [] node.kind = "Attribute" -> visit_Attribute(node.id, node.aux)
      [] node.kind = "Name" -> visit_Name(node.id)
      [] node.kind = "Assign" -> visit_Name(node.id)
      [] node.kind = "Global" -> {"'global' interdit"}
      [] node.kind = "Nonlocal" -> {"'nonlocal' interdit"}
      [] node.kind = "AsyncFunctionDef" -> {"Fonctions async interdites"}
      [] node.kind = "Await" -> {"await interdit"} \cup visit_Name(node.id)
      [] node.kind = "AsyncFor" -> visit_Name(node.id)
      [] OTHER -> {}

\* validate_code: the list of errors, or the exception that escapes it
validate_code(code) ==
    IF code.length > MAX_CODE_LENGTH
    THEN [raised |-> "none", errors |-> {"Code trop long"}]
    ELSE IF ~code.parses
    THEN [raised |-> "none", errors |-> {"Erreur de syntaxe"}]
    ELSE IF code.deep
    THEN [raised |-> "RecursionError", errors |-> {}]
    ELSE [raised |-> "none",
          errors |-> UNION {visit(code.stmts[i]) : i \in 1..Len(code.stmts)}
                     \cup (IF 1 + Len(code.stmts) + code.more_nodes > MAX_AST_NODES
                           THEN {"Code trop complexe"} ELSE {})]

NoCode == [stmts |-> << >>, length |-> 0, parses |-> TRUE, deep |-> FALSE,
           more_nodes |-> 0]

\* ExecutionResult (success, error), or the exception safe_execute raised
Result(raised, success, error) ==
    [raised |-> raised, success |-> success, error |-> error]

NoResult == Result("none", FALSE, "none")

SandboxInit ==
    /\ sb_pc = "idle"
    /\ sb_code = NoCode
    /\ child = "none"
    /\ sb_queue = "empty"
    /\ sb_result = NoResult
    /\ spawned = FALSE
    /\ timed_out = FALSE

\* multiprocessing.Process.is_alive()
is_alive == child \in {"running", "flushing", "sigterm", "sigkill"}

\* safe_execute(code) is called
Submit(code) ==
    /\ sb_pc = "idle"
    /\ sb_pc' = "validate"
    /\ sb_code' = code
    /\ UNCHANGED <<child, sb_queue, sb_result, spawned, timed_out>>
    /\ UNCHANGED notSandbox

\* step 1: errors = validate_code(code); if errors: return
Validate ==
    /\ sb_pc = "validate"
    /\ LET v == validate_code(sb_code)
       IN IF v.raised # "none"
          THEN sb_pc' = "returned" /\ sb_result' = Result(v.raised, FALSE, "none")
          ELSE IF v.errors # {}
          THEN sb_pc' = "returned" /\ sb_result' = Result("none", FALSE, "Code non autorise")
          ELSE sb_pc' = "start" /\ UNCHANGED sb_result
    /\ UNCHANGED <<sb_code, child, sb_queue, spawned, timed_out>>
    /\ UNCHANGED notSandbox

\* step 2: process.start()
StartChild ==
    /\ sb_pc = "start"
    /\ sb_pc' = "join"
    /\ child' = "running"
    /\ spawned' = TRUE
    /\ UNCHANGED <<sb_code, sb_queue, sb_result, timed_out>>
    /\ UNCHANGED notSandbox

\* _execution_worker ends: it has put its outcome on the queue ("success",
\* "error"), or the process was ended by a resource limit before it could
ChildExits(outcome) ==
    /\ child = "running"
    /\ child' = "exited"
    /\ sb_queue' = outcome
    /\ UNCHANGED <<sb_pc, sb_code, sb_result, spawned, timed_out>>
    /\ UNCHANGED notSandbox

NoPut == [outcome |-> "none", in_time |-> FALSE]

\* _execution_worker ends with an outcome larger than the pipe of the
\* queue holds (the captured output is not bounded): result_queue.put
\* returns, and the process does not exit before the queue's feeder thread
\* has written the whole outcome, which it cannot before safe_execute reads
WorkerPutsLarge(outcome) ==
    /\ child = "running"
    /\ child' = "flushing"
    /\ sb_put' = [outcome |-> outcome, in_time |-> sb_pc = "join"]
    /\ UNCHANGED <<sb_pc, sb_code, sb_queue, sb_result, spawned, timed_out>>
    /\ UNCHANGED notReport

\* a signal sent to the child ends it
ChildDies ==
    /\ child \in {"sigterm", "sigkill"}
    /\ child' = "dead"
    /\ UNCHANGED <<sb_pc, sb_code, sb_queue, sb_result, spawned, timed_out>>
    /\ UNCHANGED notSandbox

\* process.join(timeout_seconds) returns: the child has exited, or the
\* timeout has elapsed
Join ==
    /\ sb_pc = "join"
    /\ child \in {"exited", "running", "flushing"}
    /\ sb_pc' = "alive"
    /\ UNCHANGED <<sb_code, child, sb_queue, sb_result, spawned, timed_out>>
    /\ UNCHANGED notSandbox

\* if process.is_alive(): process.terminate()
CheckAlive ==
    /\ sb_pc = "alive"
    /\ IF is_alive
       THEN sb_pc' = "join1" /\ child' = "sigterm" /\ timed_out' = TRUE
       ELSE sb_pc' = "collect" /\ UNCHANGED <<child, timed_out>>
    /\ UNCHANGED <<sb_code, sb_queue, sb_result, spawned>>
    /\ UNCHANGED notSandbox

\* process.join(1) returns; if process.is_alive(): process.kill(), which
\* sends the signal and does not wait for the child; then the Timeout
\* result is returned
Join1 ==
    /\ sb_pc = "join1"
    /\ child' = IF is_alive THEN "sigkill" ELSE child
    /\ sb_pc' = "returned"
    /\ sb_result' = Result("none", FALSE, "Timeout")
    /\ UNCHANGED <<sb_code, sb_queue, spawned, timed_out>>
    /\ UNCHANGED notSandbox

\* the result is taken from result_queue and returned
Collect ==
    /\ sb_pc = "collect"
    /\ sb_pc' = "returned"
    /\ sb_result' = IF sb_queue = "empty"
                    THEN Result("none", FALSE, "Aucun resultat")
                    ELSE Result("none", sb_queue = "success",
                                IF sb_queue = "success" THEN "none" ELSE "Exception")
    /\ UNCHANGED <<sb_code, child, sb_queue, spawned, timed_out>>
    /\ UNCHANGED notSandbox

-----------------------------------------------------------------------------
(***************************************************************************)
(* Convert and concat tasks (converter.py) and the janitor (server.py).    *)
(* Progress is counted in tenths of a percent.                             *)
(***************************************************************************)

LoopLen == 2             \* files of a concat task, batches and interpolation
                         \*   updates of a manual conversion
TaskTick == 600          \* seconds between two readings of the clock
TaskMaxTime == 4200      \* the task pipeline is followed up to this time

CLEANUP_PERIOD == 600            \* time.sleep(600) of cleanup_loop
JANITOR_MAX_AGE_HOURS == 1       \* cleanup_old_tasks(max_age_hours=1)
ADMIN_MIN_AGE_HOURS == 1         \* max(1, ...) of cleanup_conversions
ADMIN_MAX_AGE_HOURS == 168       \* min(max_age, 168) of cleanup_conversions
ADMIN_DEFAULT_AGE_HOURS == 24    \* request.args.get("max_age_hours", 24)

\* one task of conversion_manager, one of concatenation_manager
TaskIds == {"conv", "concat"}

Kind(id) == IF id = "conv" THEN "convert" ELSE "concat"

\* ConversionStatus
PENDING == "pending"
PROCESSING == "processing"
COMPLETED == "completed"
FAILED == "failed"

\* tasks.get(task_id) finds nothing
NoTask == [status |-> "none", progress |-> 0, created_at |-> NoTime]

\* ConversionTask(...) / ConcatenationTask(...): the dataclass defaults
NewTask == [status |-> PENDING, progress |-> 0, created_at |-> now]

NoWorker == [pc |-> "none", i |-> 0]

TasksInit ==
    /\ tasks = [id \in TaskIds |-> NoTask]
    /\ worker = [id \in TaskIds |-> NoWorker]
    /\ next_sweep = CLEANUP_PERIOD
    /\ filtered_files = {}

\* update_task(task_id, **kwargs): nothing happens when the record is gone
update_task(id, kwargs) ==
    IF tasks[id] = NoTask
    THEN tasks
    ELSE [tasks EXCEPT ![id] =
            [key \in DOMAIN tasks[id] |->
                IF key \in DOMAIN kwargs THEN kwargs[key] ELSE tasks[id][key]]]

\* cleanup_old_tasks(max_age_hours) of one manager, on the records ts
cleanup_old_tasks(ts, kind, max_age_hours) ==
    [id \in TaskIds |->
        IF /\ Kind(id) = kind
           /\ ts[id] # NoTask
           /\ now - ts[id].created_at > max_age_hours * 3600
        THEN NoTask
        ELSE ts[id]]

At(pc, i, progress) == [pc |-> pc, i |-> i, progress |-> progress]

\* _convert_mf4_to_csv and the functions it calls: from the last update of
\* the progress, the next one.  An exception of the native export is caught
\* and the manual conversion starts over the same task.
ConvertSucc(w) ==
    CASE w.pc = "processing" -> {At("open", 0, 50)}
      [] w.pc = "open" -> {At("decode", 0, 100), At("extract", 0, 150)}
      [] w.pc = "decode" -> {At("extract", 0, 150)}
      [] w.pc = "extract" -> {At("resample", 0, 250), At("dataframe", 0, 500)}
      [] w.pc = "resample" -> {At("dataframe", 0, 500), At("analyse", 0, 200)}
      [] w.pc = "dataframe" -> {At("write_csv", 0, 750), At("analyse", 0, 200)}
      [] w.pc = "write_csv" -> {At("finalize", 0, 1000), At("analyse", 0, 200)}
      [] w.pc = "analyse" -> {At("read", 0, 250)}
      [] w.pc = "read" -> {At("batch", 1, 250 + (1 * 400) \div LoopLen)}
      [] w.pc = "batch" ->
            IF w.i < LoopLen
            THEN {At("batch", w.i + 1, 250 + ((w.i + 1) * 400) \div LoopLen)}
            ELSE {At("interpolate", 0, 680)}
      [] w.pc = "interpolate" -> {At("interp", 0, 680)}
      [] w.pc = "interp" ->
            IF w.i + 1 < LoopLen
            THEN {At("interp", w.i + 1, 680 + ((w.i + 1) * 200) \div LoopLen)}
            ELSE {At("write_manual", 0, 900)}
      [] w.pc = "write_manual" -> {At("finalize", 0, 1000)}
      [] OTHER -> {}

\* _concatenate_mf4: from the last update of the progress, the next one
ConcatSucc(w) ==
    CASE w.pc = "processing" -> {At("analyse", 0, 50)}
      [] w.pc = "analyse" -> {At("scan", 0, 50)}
      [] w.pc = "scan" ->
            IF w.i + 1 < LoopLen
            THEN {At("scan", w.i + 1, 50 + ((w.i + 1) * 150) \div LoopLen)}
            ELSE {At("common", 0, 250)}
      [] w.pc = "common" -> {At("filter", 0, 250)}
      [] w.pc = "filter" ->
            IF w.i + 1 < LoopLen
            THEN {At("filter", w.i + 1, 250 + ((w.i + 1) * 250) \div LoopLen)}
            ELSE {At("concatenate", 0, 550)}
      [] w.pc = "concatenate" -> {At("save", 0, 800)}
      [] w.pc = "save" -> {At("clean", 0, 900)}
      [] w.pc = "clean" -> {At("finalize", 0, 1000)}
      [] OTHER -> {}

\* the positions inside the try block of _execute_conversion and
\* _execute_concatenation: after the PROCESSING update, before the
\* COMPLETED one
InTry_afterCompleted(pc) == pc \notin {"none", "spawned", "returned", FAILED}

InTry(pc) == pc \notin {"none", "spawned", "returned", COMPLETED, FAILED}

\* the positions of a conversion where an exception is caught inside
\* _convert_mf4_to_csv (DBC decoding, native export)
Handled(kind, pc) ==
    /\ kind = "convert"
    /\ pc \in {"decode", "extract", "resample", "dataframe", "write_csv"}

\* _concatenate_mf4, the temporary files: what is on disk when the worker
\* reaches its next update of the progress.  filtered.save(temp_path) of
\* file i follows the update "Filtrage fichier i+1"; the unlink loop
\* follows the update "Nettoyage...".
files_after_step(kind, w, files) ==
    IF kind # "concat" THEN files
    ELSE IF w.pc = "filter" THEN files \cup {w.i}
    ELSE IF w.pc = "clean" THEN {}
    ELSE files

\* _concatenate_mf4, the temporary files: what is on disk when the
\* statement that follows the update at pc raises.  Only MDF.concatenate is
\* inside a try block that unlinks them; after the update "Nettoyage..."
\* the unlink loop comes before anything that can raise.
files_after_raise(kind, pc, files) ==
    IF kind # "concat" THEN files
    ELSE IF pc \in {"concatenate", "clean"} THEN {}
    ELSE files

\* the route: create_task, then run_conversion / run_concatenation
CreateTask(id) ==
    /\ tasks[id] = NoTask
    /\ worker[id] = NoWorker
    /\ tasks' = [tasks EXCEPT ![id] = NewTask]
    /\ worker' = [worker EXCEPT ![id] = [pc |-> "spawned", i |-> 0]]
    /\ UNCHANGED <<next_sweep, filtered_files>>
    /\ UNCHANGED notTasks

\* _execute_conversion / _execute_concatenation: get_task, PROCESSING
Begin(id) ==
    /\ worker[id].pc = "spawned"
    /\ IF tasks[id] = NoTask
       THEN /\ worker' = [worker EXCEPT ![id] = [pc |-> "returned", i |-> 0]]
            /\ UNCHANGED tasks
       ELSE /\ worker' = [worker EXCEPT ![id] = [pc |-> PROCESSING, i |-> 0]]
            /\ tasks' = update_task(id, [status |-> PROCESSING, progress |-> 0])
    /\ UNCHANGED <<next_sweep, filtered_files>>
    /\ UNCHANGED notTasks

\* the worker reaches its next update of the progress
Step(id) ==
    /\ \E n \in (IF Kind(id) = "convert" THEN ConvertSucc(worker[id])
                                         ELSE ConcatSucc(worker[id])) :
          /\ worker' = [worker EXCEPT ![id] = [pc |-> n.pc, i |-> n.i]]
          /\ tasks' = update_task(id, [progress |-> n.progress])
    /\ filtered_files' = files_after_step(Kind(id), worker[id], filtered_files)
    /\ UNCHANGED next_sweep
    /\ UNCHANGED notTasks

\* the COMPLETED update that ends the try block
Complete(id) ==
    /\ worker[id].pc = "finalize"
    /\ worker' = [worker EXCEPT ![id] = [pc |-> COMPLETED, i |-> 0]]
    /\ tasks' = update_task(id, [status |-> COMPLETED, progress |-> 1000])
    /\ UNCHANGED <<next_sweep, filtered_files>>
    /\ UNCHANGED notTasks

\* except Exception: the FAILED update
WorkerRaises(id) ==
    /\ InTry(worker[id].pc)
    /\ ~Handled(Kind(id), worker[id].pc)
    /\ worker' = [worker EXCEPT ![id] = [pc |-> FAILED, i |-> 0]]
    /\ tasks' = update_task(id, [status |-> FAILED])
    /\ filtered_files' = files_after_raise(Kind(id), worker[id].pc, filtered_files)
    /\ UNCHANGED next_sweep
    /\ UNCHANGED notTasks

\* cleanup_loop: after the sleep, both managers are swept
JanitorSweep ==
    /\ now >= next_sweep
    /\ tasks' = cleanup_old_tasks(
                    cleanup_old_tasks(tasks, "convert", JANITOR_MAX_AGE_HOURS),
                    "concat", JANITOR_MAX_AGE_HOURS)
    /\ next_sweep' = now + CLEANUP_PERIOD
    /\ UNCHANGED <<worker, filtered_files>>
    /\ UNCHANGED notTasks

Max(a, b) == IF a >= b THEN a ELSE b

Min(a, b) == IF a <= b THEN a ELSE b

\* POST /api/convert/cleanup
cleanup_conversions(max_age_hours) ==
    /\ tasks' = cleanup_old_tasks(tasks, "convert",
                    Max(ADMIN_MIN_AGE_HOURS, Min(max_age_hours, ADMIN_MAX_AGE_HOURS)))
    /\ UNCHANGED <<worker, next_sweep, filtered_files>>
    /\ UNCHANGED notTasks

\* the time passes while the janitor sleeps
JanitorSleeps ==
    /\ now < next_sweep
    /\ Advance(TaskTick, TaskMaxTime)

-----------------------------------------------------------------------------
(***************************************************************************)
(* Accounts (auth.py): the users table and the routes register, login,     *)
(* change_password, update_user and delete_user.  The server is threaded   *)
(* and every get_cursor block is a transaction of its own, so a route is a *)
(* sequence of steps that other requests interleave with.                  *)
(***************************************************************************)

Reqs == {1, 2}                   \* request threads
Passwords == {"old", "new"}
Roles == {"user", "admin"}

\* values of generate_token(), in the order they are drawn
AuthTokens == <<"tok1", "tok2", "tok3", "tok4">>

TokenSet == {AuthTokens[i] : i \in 1..Len(AuthTokens)}

\* get_by_id / get_by_email finds no row
NoAccount == [role |-> "none", password |-> "none", is_active |-> FALSE]

\* a row as UserStore.create inserts it (is_active = 1)
Account(role, password) == [role |-> role, password |-> password, is_active |-> TRUE]

IdleReq == [pc |-> "idle", op |-> "none", who |-> "none", target |-> "none",
            obj |-> NoAccount, before |-> {}]

NoAccountCall == [op |-> "none", who |-> "none", status |-> 0, token |-> "none"]

AccountsInit ==
    /\ accounts = [u \in Users |-> NoAccount]
    /\ req = [r \in Reqs |-> IdleReq]
    /\ nminted = 0
    /\ a_ret = NoAccountCall

\* the table after the routes' work so far: A registered first (admin), B
\* second, B possibly promoted by A; each holds the token of its registration
AccountsPopulated ==
    /\ accounts \in {[u \in Users |-> Account(IF u = "A" THEN "admin" ELSE role, "old")] :
                        role \in Roles}
    /\ req = [r \in Reqs |-> IdleReq]
    /\ nminted = 2
    /\ a_ret = NoAccountCall
    /\ sessions = [t \in TokenSet |->
                     IF t = "tok1" THEN [user_id |-> "A",
                                         expires_at |-> TOKEN_EXPIRY_HOURS * 3600]
                     ELSE IF t = "tok2" THEN [user_id |-> "B",
                                              expires_at |-> TOKEN_EXPIRY_HOURS * 3600]
                     ELSE NoSession]
    /\ s_ret = NoSessionCall

\* get_current_user: the user of the bearer token's session, or "none"
get_current_user(token) ==
    IF /\ token \in DOMAIN sessions
       /\ sessions[token] # NoSession
       /\ ~expired(sessions[token].expires_at)
       /\ accounts[sessions[token].user_id] # NoAccount
       /\ accounts[sessions[token].user_id].is_active
    THEN sessions[token].user_id
    ELSE "none"

\* UserStore.count_by_role().get('admin', 0)
admin_count == Cardinality({u \in Users : accounts[u].role = "admin"})

\* UserStore.update(user): UPDATE users SET ... WHERE id = ?
update(u, obj) ==
    IF accounts[u] = NoAccount THEN accounts ELSE [accounts EXCEPT ![u] = obj]

\* DELETE FROM sessions WHERE user_id = ?
delete_user_sessions(u) ==
    [t \in DOMAIN sessions |->
        IF sessions[t].user_id = u THEN NoSession ELSE sessions[t]]

\* the request of thread r returns
Respond(r, status, token) ==
    /\ a_ret' = [op |-> req[r].op, who |-> req[r].who, status |-> status,
                 token |-> token]
    /\ req' = [req EXCEPT ![r] = IdleReq]

\* a request that is refused before it has changed anything
Refuse(r, op, who, status) ==
    /\ a_ret' = [op |-> op, who |-> who, status |-> status, token |-> "none"]
    /\ UNCHANGED <<req, accounts, sessions, nminted>>

\* register: SELECT COUNT(*) FROM users; role = 'admin' if is_first
RegisterBegin(r, u) ==
    /\ req[r] = IdleReq
    /\ LET is_first == \A v \in Users : accounts[v] = NoAccount
       IN req' = [req EXCEPT ![r] =
                    [IdleReq EXCEPT !.pc = "create", !.op = "register", !.who = u,
                        !.obj = Account(IF is_first THEN "admin" ELSE "user", "old")]]
    /\ UNCHANGED <<accounts, sessions, nminted, a_ret>>
    /\ UNCHANGED notAccounts

\* register: user_store.create (ValueError on a known email)
RegisterCreate(r) ==
    /\ req[r].pc = "create"
    /\ IF accounts[req[r].who] # NoAccount
       THEN /\ Respond(r, 409, "none")
            /\ UNCHANGED accounts
       ELSE /\ accounts' = [accounts EXCEPT ![req[r].who] = req[r].obj]
            /\ req' = [req EXCEPT ![r].pc = "session"]
            /\ UNCHANGED a_ret
    /\ UNCHANGED <<sessions, nminted>>
    /\ UNCHANGED notAccounts

\* login: get_by_email, verify_password, the test of user.is_active
LoginBegin(r, u, password) ==
    /\ req[r] = IdleReq
    /\ IF accounts[u] = NoAccount \/ accounts[u].password # password
       THEN Refuse(r, "login", u, 401)
       ELSE IF ~accounts[u].is_active
       THEN Refuse(r, "login", u, 403)
       ELSE /\ req' = [req EXCEPT ![r] =
                         [IdleReq EXCEPT !.pc = "session", !.op = "login", !.who = u,
                                         !.obj = accounts[u]]]
            /\ UNCHANGED <<accounts, sessions, nminted, a_ret>>
    /\ UNCHANGED notAccounts

\* change_password: login_required, verify_password, the new hash
ChangePasswordBegin(r, token, current_password, new_password) ==
    /\ req[r] = IdleReq
    /\ LET u == get_current_user(token)
       IN IF u = "none" \/ accounts[u].password # current_password
          THEN Refuse(r, "change_password", u, 401)
          ELSE /\ req' = [req EXCEPT ![r] =
                            [IdleReq EXCEPT !.pc = "update", !.op = "change_password",
                                !.who = u,
                                !.obj = [accounts[u] EXCEPT !.password = new_password],
                                !.before = {t \in DOMAIN sessions :
                                                sessions[t].user_id = u}]]
               /\ UNCHANGED <<accounts, sessions, nminted, a_ret>>
    /\ UNCHANGED notAccounts

\* change_password: user_store.update(user)
ChangePasswordUpdate(r) ==
    /\ req[r].pc = "update"
    /\ accounts' = update(req[r].who, req[r].obj)
    /\ req' = [req EXCEPT ![r].pc = "delete_sessions"]
    /\ UNCHANGED <<sessions, nminted, a_ret>>
    /\ UNCHANGED notAccounts

\* change_password: user_store.delete_user_sessions(user.id)
ChangePasswordDelete(r) ==
    /\ req[r].pc = "delete_sessions"
    /\ sessions' = delete_user_sessions(req[r].who)
    /\ req' = [req EXCEPT ![r].pc = "session"]
    /\ UNCHANGED <<accounts, nminted, a_ret>>
    /\ UNCHANGED notAccounts

\* register, login, change_password: user_store.create_session(user) and
\* the response.  The INSERT fails on a user that is gone (FOREIGN KEY);
\* otherwise it is followed by update(user) with the route's user object.
MintSession(r) ==
    /\ req[r].pc = "session"
    /\ nminted < Len(AuthTokens)
    /\ IF accounts[req[r].who] = NoAccount
       THEN /\ Respond(r, 500, "none")
            /\ UNCHANGED <<accounts, sessions, nminted>>
       ELSE LET token == AuthTokens[nminted + 1]
            IN /\ sessions' = [sessions EXCEPT ![token] =
                                 [user_id |-> req[r].who,
                                  expires_at |-> now + TOKEN_EXPIRY_HOURS * 3600]]
               /\ nminted' = nminted + 1
               /\ accounts' = update(req[r].who, req[r].obj)
               /\ Respond(r, IF req[r].op = "register" THEN 201 ELSE 200, token)
    /\ UNCHANGED notAccounts

\* the is_active member of the body of an update_user request
ActiveParams == {"absent", "false", "true"}

\* update_current_user: login_required; name and settings are set on the
\* user object of the request
UpdateCurrentUserBegin(r, token) ==
    /\ req[r] = IdleReq
    /\ LET u == get_current_user(token)
       IN IF u = "none" THEN Refuse(r, "update_current_user", u, 401)
          ELSE /\ req' = [req EXCEPT ![r] =
                            [IdleReq EXCEPT !.pc = "write_profile",
                                !.op = "update_current_user", !.who = u,
                                !.obj = accounts[u]]]
               /\ UNCHANGED <<accounts, sessions, nminted, a_ret>>
    /\ UNCHANGED notAccounts

\* update_current_user: user_store.update(user)
UpdateCurrentUserWrite(r) ==
    /\ req[r].pc = "write_profile"
    /\ accounts' = update(req[r].who, req[r].obj)
    /\ Respond(r, 200, "none")
    /\ UNCHANGED <<sessions, nminted>>
    /\ UNCHANGED notAccounts

\* update_user: admin_required, get_by_id, the guard on self-demotion, and
\* the role and is_active of the body set on the user object
UpdateUserBegin(r, token, target, role, is_active) ==
    /\ req[r] = IdleReq
    /\ LET caller == get_current_user(token)
       IN IF caller = "none" THEN Refuse(r, "update_user", caller, 401)
          ELSE IF accounts[caller].role # "admin"
          THEN Refuse(r, "update_user", caller, 403)
          ELSE IF accounts[target] = NoAccount
          THEN Refuse(r, "update_user", caller, 404)
          ELSE IF target = caller /\ role # "admin" /\ admin_count <= 1
          THEN Refuse(r, "update_user", caller, 400)
          ELSE /\ req' = [req EXCEPT ![r] =
                            [IdleReq EXCEPT
                                !.pc = IF is_active = "false" THEN "deactivate"
                                       ELSE "write",
                                !.op = "update_user",
                                !.who = caller, !.target = target,
                                !.obj = [accounts[target] EXCEPT
                                            !.role = role,
                                            !.is_active = IF is_active = "absent" THEN @
                                                          ELSE is_active = "true"]]]
               /\ UNCHANGED <<accounts, sessions, nminted, a_ret>>
    /\ UNCHANGED notAccounts

\* update_user: user_store.delete_user_sessions(user_id) when the body sets
\* is_active to false
UpdateUserDeleteSessions(r) ==
    /\ req[r].pc = "deactivate"
    /\ sessions' = delete_user_sessions(req[r].target)
    /\ req' = [req EXCEPT ![r].pc = "write"]
    /\ UNCHANGED <<accounts, nminted, a_ret>>
    /\ UNCHANGED notAccounts

\* update_user: user_store.update(user)
UpdateUserWrite(r) ==
    /\ req[r].pc = "write"
    /\ accounts' = update(req[r].target, req[r].obj)
    /\ Respond(r, 200, "none")
    /\ UNCHANGED <<sessions, nminted>>
    /\ UNCHANGED notAccounts

\* delete_user: admin_required, not the caller's own account
DeleteUserBegin(r, token, target) ==
    /\ req[r] = IdleReq
    /\ LET caller == get_current_user(token)
       IN IF caller = "none" THEN Refuse(r, "delete_user", caller, 401)
          ELSE IF accounts[caller].role # "admin"
          THEN Refuse(r, "delete_user", caller, 403)
          ELSE IF target = caller
          THEN Refuse(r, "delete_user", caller, 400)
          ELSE /\ req' = [req EXCEPT ![r] =
                            [IdleReq EXCEPT !.pc = "delete", !.op = "delete_user",
                                !.who = caller, !.target = target]]
               /\ UNCHANGED <<accounts, sessions, nminted, a_ret>>
    /\ UNCHANGED notAccounts

\* delete_user: user_store.delete (the sessions go with ON DELETE CASCADE)
DeleteUserRow(r) ==
    /\ req[r].pc = "delete"
    /\ IF accounts[req[r].target] = NoAccount
       THEN /\ Respond(r, 404, "none")
            /\ UNCHANGED <<accounts, sessions>>
       ELSE /\ accounts' = [accounts EXCEPT ![req[r].target] = NoAccount]
            /\ sessions' = delete_user_sessions(req[r].target)
            /\ Respond(r, 200, "none")
    /\ UNCHANGED nminted
    /\ UNCHANGED notAccounts

-----------------------------------------------------------------------------
(***************************************************************************)
(* Downsampler (core/downsampling.py; server.py holds a copy of the same   *)
(* functions).  A series is a pair of sequences x (timestamps) and y       *)
(* (values); Python indices start at 0, so x[i] of the code is x[i + 1]    *)
(* here.                                                                   *)
(***************************************************************************)

\* ---- bounds of the downsampler model ----
MaxLen == 5              \* longest series handed to lttb_downsample
MaxStamp == 5            \* largest timestamp of such a series
MaxThreshold == 6        \* largest threshold asked for

SampleValues == {0, 1, 2}

\* the two builds: numba installed or not
LttbImpls == {"numba", "numpy"}

Abs(v) == IF v < 0 THEN 0 - v ELSE v

\* np.asarray(., dtype=np.float32) on an integer: 24 bits of mantissa, so
\* exact up to 2^24 and rounded to the nearest even multiple of 2 between
\* 2^24 and 2^25
f32(v) ==
    IF Abs(v) <= 16777216 THEN v
    ELSE LET m == Abs(v) \div 2
             r == IF Abs(v) % 2 = 0 THEN Abs(v)
                  ELSE IF m % 2 = 0 THEN 2 * m ELSE 2 * m + 2
         IN IF v < 0 THEN 0 - r ELSE r

asarray_f32(s) == [k \in 1..Len(s) |-> f32(s[k])]

\* a mutation of short_circuit: thresholds up to 3 return the input
short_circuit_upto3(n, threshold) == threshold >= n \/ threshold <= 3

\* if threshold >= n or threshold <= 2: return x.copy(), y.copy()
short_circuit(n, threshold) == threshold >= n \/ threshold <= 2

\* int(i * bucket_size), bucket_size = (n - 2) / (threshold - 2); the float
\* product and the exact quotient have the same integer part for n < 17
bucket_edge(i, n, threshold) == (i * (n - 2)) \div (threshold - 2)

RECURSIVE sum_range(_, _, _)
\* the sum of the slice s[lo:hi]
sum_range(s, lo, hi) ==
    IF lo >= hi THEN 0 ELSE s[lo + 1] + sum_range(s, lo + 1, hi)

\* the average of the next bucket as count and sums (avg_x = sx / cnt).
\* When the next bucket is empty _lttb_numpy takes the last sample and
\* _lttb_numba leaves avg_x = avg_y = 0.
bucket_avg(impl, x, y, i, threshold) ==
    LET n == Len(x)
        avg_start == bucket_edge(i + 1, n, threshold) + 1
        avg_end == Min(bucket_edge(i + 2, n, threshold) + 1, n)
    IN IF avg_start < avg_end
       THEN [cnt |-> avg_end - avg_start,
             sx |-> sum_range(x, avg_start, avg_end),
             sy |-> sum_range(y, avg_start, avg_end)]
       ELSE IF impl = "numpy"
       THEN [cnt |-> 1, sx |-> x[n], sy |-> y[n]]
       ELSE [cnt |-> 1, sx |-> 0, sy |-> 0]

\* the area of the triangle (a, j, average), multiplied by avg.cnt
area(x, y, a, avg, j) ==
    Abs((x[a + 1] * avg.cnt - avg.sx) * (y[j + 1] - y[a + 1])
        - (x[a + 1] - x[j + 1]) * (avg.sy - y[a + 1] * avg.cnt))

\* range_start + np.argmax(areas), and the loop of _lttb_numba that keeps
\* the first j with the strictly largest area
max_area_point(x, y, a, avg, range_start, range_end) ==
    IF range_start >= range_end THEN range_start
    ELSE CHOOSE j \in range_start..(range_end - 1) :
            \A k \in range_start..(range_end - 1) :
                \/ area(x, y, a, avg, k) < area(x, y, a, avg, j)
                \/ area(x, y, a, avg, k) = area(x, y, a, avg, j) /\ j <= k

\* the body of the loop for one i: the index assigned to a
lttb_step(impl, x, y, threshold, i, a) ==
    LET n == Len(x)
        range_start == bucket_edge(i, n, threshold) + 1
        range_end == Min(bucket_edge(i + 1, n, threshold) + 1, n)
    IN max_area_point(x, y, a, bucket_avg(impl, x, y, i, threshold),
                      range_start, range_end)

RECURSIVE lttb_loop(_, _, _, _, _, _, _)
\* for i in range(1, threshold - 1): the indices assigned to a by the
\* iterations i..j, in order, a being the index the iteration before i left
\* (the iterations are split in halves to keep the evaluation shallow)
lttb_loop(impl, x, y, threshold, i, j, a) ==
    IF i > j THEN <<>>
    ELSE IF i = j THEN <<lttb_step(impl, x, y, threshold, i, a)>>
    ELSE LET mid == (i + j) \div 2
             first == lttb_loop(impl, x, y, threshold, i, mid, a)
         IN first \o lttb_loop(impl, x, y, threshold, mid + 1, j,
                                first[Len(first)])

\* _lttb_numpy / _lttb_numba: the sampled arrays, and idx, the input index
\* each output position was copied from
lttb(impl, x, y, threshold) ==
    LET n == Len(x)
    IN IF short_circuit(n, threshold)
       THEN [x |-> x, y |-> y, idx |-> [k \in 1..n |-> k - 1]]
       ELSE LET picks == lttb_loop(impl, x, y, threshold, 1, threshold - 2, 0)
                idx == [k \in 1..threshold |->
                          IF k = 1 THEN 0
                          ELSE IF k = threshold THEN n - 1
                          ELSE picks[k - 1]]
            IN [x |-> [k \in 1..threshold |-> x[idx[k] + 1]],
                y |-> [k \in 1..threshold |-> y[idx[k] + 1]],
                idx |-> idx]

lttb_downsample(impl, x, y, threshold) ==
    lttb(impl, asarray_f32(x), asarray_f32(y), threshold)

\* the elements of a set of timestamps in increasing order
Ascending(S) ==
    [k \in 1..Cardinality(S) |->
        CHOOSE v \in S : Cardinality({u \in S : u < v}) = k - 1]

\* the series of n samples with increasing timestamps
Series(n) ==
    {[x |-> Ascending(S), y |-> y] :
        S \in {T \in SUBSET (0..MaxStamp) : Cardinality(T) = n},
        y \in [1..n -> SampleValues]}

NoOutput == [x |-> <<>>, y |-> <<>>, idx |-> <<>>]

\* a call of lttb_downsample before it returns
LttbCall(impl, s, threshold) ==
    [impl |-> impl, x |-> s.x, y |-> s.y, threshold |-> threshold,
     returned |-> FALSE, out |-> NoOutput]

NoLttbCall ==
    [impl |-> "none", x |-> <<>>, y |-> <<>>, threshold |-> 0,
     returned |-> FALSE, out |-> NoOutput]

\* the call returns
Downsample(impl) ==
    /\ lttb_call.impl = impl
    /\ ~lttb_call.returned
    /\ lttb_call' = [lttb_call EXCEPT
            !.returned = TRUE,
            !.out = lttb_downsample(impl, lttb_call.x, lttb_call.y,
                                    lttb_call.threshold)]
    /\ UNCHANGED <<now, datastore, view_ret, lazy, lazy_ret>>
    /\ UNCHANGED notView

-----------------------------------------------------------------------------
(***************************************************************************)
(* View engine (server.py: MultiSourceDataStore.get_view, the routes       *)
(* GET /api/view and GET /api/eda/view/<session_id>).  A request parameter *)
(* is the string Flask hands over, or Absent; the signals parameter is     *)
(* given as the fields signals_param.split(",") yields.                    *)
(***************************************************************************)

\* ---- bounds of the view model ----
LongLen == 102           \* samples of the longest signal of a source

\* ---- constants of the routes ----
MAX_VIEW_SIGNALS == 50   \* if len(signal_indices) > 50
MIN_POINTS == 100        \* max(100, ...)
MAX_POINTS == 10000      \* min(max_points, 10000)
DEFAULT_POINTS == 2000   \* request.args.get("max_points", 2000)

Absent == "absent"

\* int(s) for the fields of the model: the integer, or ok = FALSE for the
\* ValueError
py_int(s) ==
    CASE s = "0" -> [ok |-> TRUE, val |-> 0]
      [] s = "1" -> [ok |-> TRUE, val |-> 1]
      [] s = " 1" -> [ok |-> TRUE, val |-> 1]
      [] s = "-1" -> [ok |-> TRUE, val |-> 0 - 1]
      [] s = "60" -> [ok |-> TRUE, val |-> 60]
      [] s = "99" -> [ok |-> TRUE, val |-> 99]
      [] s = "101" -> [ok |-> TRUE, val |-> 101]
      [] s = "10001" -> [ok |-> TRUE, val |-> 10001]
      [] OTHER -> [ok |-> FALSE, val |-> 0]

\* x.strip() is empty
is_blank(s) == s \in {"", " "}

\* [a] * n
Repeat(a, n) == [k \in 1..n |-> a]

\* the values of the signals parameter, as request.args.get("signals", "0")
\* returns them (<<"0">> when absent): "all", a few short lists and lists of
\* 50 and 51 fields
SignalsParams ==
    {<<"0">>, <<"all">>, <<"1">>, <<"0", "1">>, <<" 1", "", "0">>, <<"99">>,
     <<"0", "x">>, <<"-1", "0">>}
    \cup {Repeat("1", n) : n \in {MAX_VIEW_SIGNALS, MAX_VIEW_SIGNALS + 1}}

MaxPointsParams == {Absent, "x", "-1", "99", "101", "10001"}

StartParams == {Absent, "1", "x"}

EndParams == {Absent, "60"}

\* the signal k of a source: n samples, one per second
Signal(n, k) ==
    [timestamps |-> [i \in 1..n |-> i - 1],
     values |-> [i \in 1..n |-> (i * i * (k + 1)) % 7]]

\* a source of two signals, one of them long
SmallStore == <<Signal(3, 0), Signal(LongLen, 1)>>

\* a source of 51 short signals
WideStore == [k \in 1..(MAX_VIEW_SIGNALS + 1) |-> Signal(2, k)]

Stores == {SmallStore, WideStore}

\* np.min / min of a non-empty sequence
seq_min(s) ==
    CHOOSE v \in {s[k] : k \in 1..Len(s)} : \A k \in 1..Len(s) : v <= s[k]

\* np.max / max of a non-empty sequence
seq_max(s) ==
    CHOOSE v \in {s[k] : k \in 1..Len(s)} : \A k \in 1..Len(s) : v >= s[k]

\* datastore.t_min / datastore.t_max as the loaders compute them
store_t_min(signals) ==
    seq_min([k \in 1..Len(signals) |-> signals[k].timestamps[1]])

store_t_max(signals) ==
    seq_max([k \in 1..Len(signals) |->
                signals[k].timestamps[Len(signals[k].timestamps)]])

\* signal_indices of a route: "all" is known to GET /api/view only; a field
\* int() refuses makes the request a 400; more than 50 indices are cut
signal_indices(route, signals_param, n_signals) ==
    LET fields == signals_param
        kept == SelectSeq(fields, LAMBDA f : ~is_blank(f))
        cut(s) == IF Len(s) > MAX_VIEW_SIGNALS
                  THEN SubSeq(s, 1, MAX_VIEW_SIGNALS) ELSE s
    IN IF route = "view" /\ fields = <<"all">>
       THEN [ok |-> TRUE, val |-> [k \in 1..n_signals |-> k - 1]]
       ELSE IF \E k \in 1..Len(kept) : ~py_int(kept[k]).ok
       THEN [ok |-> FALSE, val |-> <<>>]
       ELSE [ok |-> TRUE,
             val |-> cut([k \in 1..Len(kept) |-> py_int(kept[k]).val])]

\* max_points of a route
clamp_max_points(param) ==
    IF param = Absent THEN Max(MIN_POINTS, Min(DEFAULT_POINTS, MAX_POINTS))
    ELSE IF ~py_int(param).ok THEN DEFAULT_POINTS
    ELSE Max(MIN_POINTS, Min(py_int(param).val, MAX_POINTS))

\* float(request.args.get(name, default)) for the fields of the model
py_float(param, default) ==
    IF param = Absent THEN [ok |-> TRUE, val |-> default]
    ELSE py_int(param)

\* the positions where mask = (ts >= start) & (ts <= end) is true
mask_indices(ts, start, end) ==
    SelectSeq([k \in 1..Len(ts) |-> k],
              LAMBDA k : ts[k] >= start /\ ts[k] <= end)

\* timestamps[mask], values[mask]
clip(sig, start, end) ==
    LET at == mask_indices(sig.timestamps, start, end)
    IN [timestamps |-> [k \in 1..Len(at) |-> sig.timestamps[at[k]]],
        values |-> [k \in 1..Len(at) |-> sig.values[at[k]]]]

\* a mutation of is_complete: a view of exactly max_points samples is
\* reported as incomplete
is_complete_below(n, max_points) == n < max_points

\* "is_complete": len(view_ts) <= max_points
is_complete(n, max_points) == n <= max_points

\* the entry of result["signals"] for a signal with samples in the range;
\* original and returned are what the loop adds to original_points and
\* returned_points
signal_view(impl, sig_idx, sig, start, end, max_points) ==
    LET v == clip(sig, start, end)
        ds == IF Len(v.timestamps) > max_points
              THEN lttb_downsample(impl, v.timestamps, v.values, max_points)
              ELSE [x |-> v.timestamps, y |-> v.values]
    IN [index |-> sig_idx,
        original |-> Len(v.timestamps),
        returned |-> Len(ds.x),
        timestamps |-> ds.x,
        values |-> ds.y,
        is_complete |-> is_complete(Len(v.timestamps), max_points),
        min |-> seq_min(v.values),
        max |-> seq_max(v.values)]

\* for sig_idx in signal_indices: the entries appended to result["signals"].
\* An index is passed over (continue) when it is out of range, when the
\* signal is not loaded, and when no sample lies in the range.
view_loop(impl, indices, signals, start, end, max_points) ==
    LET used == SelectSeq(indices, LAMBDA sig_idx :
                    /\ sig_idx >= 0
                    /\ sig_idx < Len(signals)
                    /\ signals[sig_idx + 1].loaded
                    /\ Len(mask_indices(signals[sig_idx + 1].timestamps,
                                        start, end)) > 0)
    IN [k \in 1..Len(used) |->
            signal_view(impl, used[k], signals[used[k] + 1], start, end,
                        max_points)]

RECURSIVE sum_between(_, _, _, _)
\* the sum of s[i][field] .. s[j][field], by halves
sum_between(s, field, i, j) ==
    IF i > j THEN 0
    ELSE IF i = j THEN s[i][field]
    ELSE sum_between(s, field, i, (i + j) \div 2)
         + sum_between(s, field, (i + j) \div 2 + 1, j)

\* result["view"][field] += ... over the entries
sum_of(s, field) == sum_between(s, field, 1, Len(s))

\* self.signals of the data store as view_loop reads it
store_signals(signals) ==
    [k \in 1..Len(signals) |->
        [loaded |-> TRUE, timestamps |-> signals[k].timestamps,
         values |-> signals[k].values]]

EmptyResult == [original_points |-> 0, returned_points |-> 0, signals |-> <<>>]

\* a view request that has not been answered: the route, the build of the
\* downsampler, the user and session of a lazy view, and the parameters
ViewRequest(route, impl, user, sid, signals_param, start, end, max_points) ==
    [route |-> route, impl |-> impl, user |-> user, sid |-> sid,
     signals |-> signals_param, start |-> start, end |-> end,
     max_points |-> max_points,
     answered |-> FALSE, status |-> 0, ran |-> FALSE, indices |-> <<>>,
     limit |-> 0,
     t0 |-> 0, t1 |-> 0, result |-> EmptyResult]

NoView == ViewRequest("none", "none", "none", 0, <<>>, Absent, Absent, Absent)

\* the response to a request that is turned down before the loop
Refused(status) == [view_ret EXCEPT !.answered = TRUE, !.status = status]

\* the response to a request that ran the loop: the status, the
\* signal_indices, max_points, start and end it ran with, and the result
Answer(status, indices, limit, t0, t1, entries) ==
    [view_ret EXCEPT
        !.answered = TRUE, !.status = status, !.ran = TRUE,
        !.indices = indices,
        !.limit = limit, !.t0 = t0, !.t1 = t1,
        !.result = [original_points |-> sum_of(entries, "original"),
                    returned_points |-> sum_of(entries, "returned"),
                    signals |-> entries]]

\* the part the two routes share: parameters, loop, response
view_response(route, signals, t_min, t_max) ==
    LET idx == signal_indices(route, view_ret.signals, Len(signals))
        start == py_float(view_ret.start, t_min)
        end == py_float(view_ret.end, t_max)
        max_points == clamp_max_points(view_ret.max_points)
        entries == view_loop(view_ret.impl, idx.val, signals, start.val,
                             end.val, max_points)
    IN IF ~idx.ok THEN Refused(400)
       ELSE IF ~start.ok \/ ~end.ok THEN Refused(400)
       ELSE Answer(IF Len(entries) = 0 THEN 404 ELSE 200, idx.val,
                   max_points, start.val, end.val, entries)

\* GET /api/view
GetView ==
    /\ view_ret.route = "view"
    /\ ~view_ret.answered
    /\ view_ret' = view_response("view", store_signals(datastore),
                                 store_t_min(datastore), store_t_max(datastore))
    /\ UNCHANGED <<now, lttb_call, datastore, lazy, lazy_ret>>
    /\ UNCHANGED notView

-----------------------------------------------------------------------------
(***************************************************************************)
(* Recordings and their two readers: the eager loader                      *)
(* (data_management/loaders.py) and the lazy sessions (lazy_eda.py).  A    *)
(* recording is mdf.channels_db as a sequence of channels in key order;    *)
(* a channel holds the signal mdf.get returns for each of its groups.      *)
(* Samples are finite numbers, so the repair of NaN values, which both     *)
(* readers do with the same statements, has nothing to do.                 *)
(***************************************************************************)

\* ---- bounds of the lazy-session model ----
max_sessions == 2        \* LazyEDAManager(max_sessions=...): 50 as deployed
LazyTick == 1800         \* seconds between two readings of the clock
LazyMaxTime == 5400      \* the clock stops here

\* ---- constants ----
session_timeout == 3600  \* LazyEDAManager(session_timeout=3600)
MULTIGROUP_MIN_LEN == 10 \* fetch_signal_multigroup: len(sig.timestamps) > 10

SessionIds == 1..(max_sessions + 1)

\* what mdf.get returns for one group of a channel
GroupSignal(n, k, numeric) ==
    [timestamps |-> Signal(n, k).timestamps,
     samples |-> Signal(n, k).values,
     numeric |-> numeric]

\* n samples, all of them 0
Zeros(n) ==
    [timestamps |-> [i \in 1..n |-> i - 1], samples |-> [i \in 1..n |-> 0],
     numeric |-> TRUE]

Channel(name, groups) == [name |-> name, groups |-> groups]

\* a long signal and a channel the name filter drops
RecLong ==
    <<Channel("speed", <<GroupSignal(LongLen, 1, TRUE)>>),
      Channel("t_oil", <<GroupSignal(3, 2, TRUE)>>)>>

\* a channel of two groups, the first one short and all 0
RecGroups ==
    <<Channel("rpm", <<Zeros(2), GroupSignal(3, 0, TRUE)>>),
      Channel("speed", <<GroupSignal(3, 1, TRUE)>>)>>

\* a text channel, and a channel whose first group is empty
RecText ==
    <<Channel("label", <<GroupSignal(2, 0, FALSE)>>),
      Channel("gear", <<Zeros(0), GroupSignal(3, 3, TRUE)>>)>>

Recordings == {RecLong, RecGroups, RecText}

\* any(p.lower() in n.lower() for p in exclude_patterns), for the channel
\* names of the model
is_excluded(name) == name \in {"t_oil"}

filtered_names(rec) == SelectSeq(rec, LAMBDA ch : ~is_excluded(ch.name))

\* np.any(sig.samples != 0)
any_nonzero(samples) == \E i \in 1..Len(samples) : samples[i] # 0

NoGroupSignal == [timestamps |-> <<>>, samples |-> <<>>, numeric |-> FALSE]

RECURSIVE first_usable_group(_, _)
\* for group_idx, channel_idx in groups: the first signal that is returned
first_usable_group(groups, g) ==
    IF g > Len(groups) THEN [found |-> FALSE, sig |-> NoGroupSignal]
    ELSE IF Len(groups[g].samples) = 0 THEN first_usable_group(groups, g + 1)
    ELSE IF ~groups[g].numeric THEN [found |-> TRUE, sig |-> groups[g]]
    ELSE IF \/ any_nonzero(groups[g].samples)
            \/ Len(groups[g].timestamps) > MULTIGROUP_MIN_LEN
    THEN [found |-> TRUE, sig |-> groups[g]]
    ELSE first_usable_group(groups, g + 1)

fetch_signal_multigroup(ch) ==
    IF Len(ch.groups) = 0 THEN [found |-> FALSE, sig |-> NoGroupSignal]
    ELSE IF Len(ch.groups) = 1 THEN [found |-> TRUE, sig |-> ch.groups[1]]
    ELSE first_usable_group(ch.groups, 1)

RECURSIVE load_loop(_, _)
\* for i, name in enumerate(filtered_names): the signals appended
load_loop(chans, k) ==
    IF k > Len(chans) THEN <<>>
    ELSE LET got == fetch_signal_multigroup(chans[k])
             rest == load_loop(chans, k + 1)
         IN IF ~got.found \/ Len(got.sig.samples) = 0 THEN rest
            ELSE IF ~got.sig.numeric THEN rest
            ELSE <<[name |-> chans[k].name, loaded |-> TRUE,
                    timestamps |-> got.sig.timestamps,
                    values |-> got.sig.samples]>> \o rest

\* the signals of load_mf4_with_dbc, each with the name of its metadata
load_mf4_with_dbc(rec) == load_loop(filtered_names(rec), 1)

\* ---- lazy sessions ----

\* LazySignal with its metadata, before preload_signal
LazySignal(name) ==
    [name |-> name, group_index |-> 1, loaded |-> FALSE,
     timestamps |-> <<>>, values |-> <<>>]

\* LazySession(...) as create_session builds it
LazySession(session_id, user_id, rec, t) ==
    [session_id |-> session_id, user_id |-> user_id, rec |-> rec,
     mdf_handle |-> FALSE, listed |-> FALSE, signals |-> <<>>,
     t_min |-> 0, t_max |-> 0, last_access |-> t]

\* position of the session in self.sessions, 0 when absent
find_session(L, sid) ==
    IF \E i \in 1..Len(L) : L[i].session_id = sid
    THEN CHOOSE i \in 1..Len(L) : L[i].session_id = sid
    ELSE 0

\* session.touch()
touch(L, i, t) == [L EXCEPT ![i].last_access = t]

\* self.sessions.pop(session_id, None)
pop_session(L, sid) == SelectSeq(L, LAMBDA s : s.session_id # sid)

RECURSIVE remove_oldest(_, _)
\* close the first n sessions of sorted(..., key=last_access)
remove_oldest(L, n) ==
    IF n <= 0 \/ Len(L) = 0 THEN L
    ELSE LET i == CHOOSE i \in 1..Len(L) :
                    \A j \in 1..Len(L) :
                        \/ L[j].last_access > L[i].last_access
                        \/ L[j].last_access = L[i].last_access /\ i <= j
         IN remove_oldest(pop_session(L, L[i].session_id), n - 1)

cleanup_old_sessions(L, t) ==
    LET kept == SelectSeq(L, LAMBDA s : ~(t - s.last_access > session_timeout))
    IN IF Len(kept) > max_sessions
       THEN remove_oldest(kept, Len(kept) - max_sessions)
       ELSE kept

RECURSIVE list_loop(_, _, _)
\* for name, (group_idx, channel_idx) in channel_info.items(): the time
\* range is read from the first channel that has samples, and that channel
\* is left out when it is not numeric
list_loop(chans, k, st) ==
    IF k > Len(chans) THEN st
    ELSE LET sig == chans[k].groups[1]
             sampled == ~st.sampled_one /\ Len(sig.timestamps) > 0
             st1 == IF sampled
                    THEN [st EXCEPT !.sampled_one = TRUE,
                                    !.t_min = sig.timestamps[1],
                                    !.t_max = sig.timestamps[Len(sig.timestamps)]]
                    ELSE st
         IN IF sampled /\ ~sig.numeric
            THEN list_loop(chans, k + 1, st1)
            ELSE list_loop(chans, k + 1,
                    [st1 EXCEPT !.signals = Append(@, LazySignal(chans[k].name))])

\* the session after list_signals has read the channels of its file
listed_session(s) ==
    LET st == list_loop(filtered_names(s.rec), 1,
                        [sampled_one |-> FALSE, t_min |-> 0, t_max |-> 0,
                         signals |-> <<>>])
    IN [s EXCEPT !.mdf_handle = TRUE, !.listed = TRUE,
                 !.signals = st.signals, !.t_min = st.t_min,
                 !.t_max = st.t_max]

\* the channel of a name (channel names of a recording are distinct)
channel_of(rec, name) ==
    rec[CHOOSE c \in 1..Len(rec) : rec[c].name = name]

\* Mutant of preloaded: every signal of the session is marked loaded.
preloaded_everything(s, signal_index) ==
    IF ~s.listed \/ signal_index < 0 \/ signal_index >= Len(s.signals) THEN s
    ELSE [s EXCEPT !.mdf_handle = TRUE,
                   !.signals = [j \in 1..Len(s.signals) |->
                                   [s.signals[j] EXCEPT !.loaded = TRUE]]]

\* the session after preload_signal(session_id, signal_index): unchanged
\* when the session is not listed, the index is unknown, the signal is
\* loaded already, or the signal of the stored group is empty or not numeric
preloaded(s, signal_index) ==
    IF ~s.listed \/ signal_index < 0 \/ signal_index >= Len(s.signals) THEN s
    ELSE LET lazy_signal == s.signals[signal_index + 1]
             sig == channel_of(s.rec, lazy_signal.name).groups[lazy_signal.group_index]
         IN IF lazy_signal.loaded THEN s
            ELSE IF Len(sig.samples) = 0 \/ ~sig.numeric
            THEN [s EXCEPT !.mdf_handle = TRUE]
            ELSE [s EXCEPT !.mdf_handle = TRUE,
                           !.signals[signal_index + 1] =
                               [lazy_signal EXCEPT !.loaded = TRUE,
                                    !.timestamps = sig.timestamps,
                                    !.values = sig.samples]]

\* the session after get_signal_data for each index of a view:
\* preload_signal changes the signal of its index only
preloaded_all(s, indices) ==
    [s EXCEPT
        !.mdf_handle = \/ s.mdf_handle
                       \/ \E k \in 1..Len(indices) :
                            preloaded(s, indices[k]).mdf_handle,
        !.signals = [j \in 1..Len(s.signals) |->
                        IF \E k \in 1..Len(indices) : indices[k] = j - 1
                        THEN preloaded(s, j - 1).signals[j]
                        ELSE s.signals[j]]]

\* what a call of the manager returned: served tells that it found the
\* session, idle how long the session had not been accessed at that time,
\* index the signal a preload_signal was called for
NoLazyCall == [op |-> "none", sid |-> 0, served |-> FALSE, idle |-> 0, index |-> -1]

LazyReturn(op, sid) ==
    LET i == find_session(lazy, sid)
    IN [op |-> op, sid |-> sid, served |-> i # 0,
        idle |-> IF i = 0 THEN 0 ELSE now - lazy[i].last_access, index |-> -1]

\* POST /api/eda/upload: the id is a fresh uuid4
CreateLazySession(sid, user, rec) ==
    /\ find_session(lazy, sid) = 0
    /\ lazy' = Append(cleanup_old_sessions(lazy, now),
                      LazySession(sid, user, rec, now))
    /\ lazy_ret' = [op |-> "create_session", sid |-> sid, served |-> TRUE,
                    idle |-> 0, index |-> -1]
    /\ UNCHANGED <<now, lttb_call, datastore, view_ret>>
    /\ UNCHANGED notView

GetLazySession(sid) ==
    /\ LET i == find_session(lazy, sid)
       IN lazy' = IF i = 0 THEN lazy ELSE touch(lazy, i, now)
    /\ lazy_ret' = LazyReturn("get_session", sid)
    /\ UNCHANGED <<now, lttb_call, datastore, view_ret>>
    /\ UNCHANGED notView

ListSignals(sid) ==
    /\ LET i == find_session(lazy, sid)
       IN lazy' = IF i = 0 THEN lazy
                  ELSE IF lazy[i].listed THEN touch(lazy, i, now)
                  ELSE [touch(lazy, i, now) EXCEPT ![i] = listed_session(@)]
    /\ lazy_ret' = LazyReturn("list_signals", sid)
    /\ UNCHANGED <<now, lttb_call, datastore, view_ret>>
    /\ UNCHANGED notView

PreloadSignal(sid, signal_index) ==
    /\ LET i == find_session(lazy, sid)
       IN lazy' = IF i = 0 THEN lazy
                  ELSE [touch(lazy, i, now) EXCEPT
                            ![i] = preloaded(@, signal_index)]
    /\ lazy_ret' = [LazyReturn("preload_signal", sid) EXCEPT !.index = signal_index]
    /\ UNCHANGED <<now, lttb_call, datastore, view_ret>>
    /\ UNCHANGED notView

CloseLazySession(sid) ==
    /\ lazy' = pop_session(lazy, sid)
    /\ lazy_ret' = LazyReturn("close_session", sid)
    /\ UNCHANGED <<now, lttb_call, datastore, view_ret>>
    /\ UNCHANGED notView

\* list_signals on the session of a view request that is still to come
ListBeforeView ==
    /\ view_ret.route = "eda_view"
    /\ ~view_ret.answered
    /\ ListSignals(view_ret.sid)

\* preload_signal on the session of a view request that is still to come
PreloadBeforeView(signal_index) ==
    /\ view_ret.route = "eda_view"
    /\ ~view_ret.answered
    /\ PreloadSignal(view_ret.sid, signal_index)

\* GET /api/eda/view/<session_id>
GetLazyView ==
    /\ view_ret.route = "eda_view"
    /\ ~view_ret.answered
    /\ LET i == find_session(lazy, view_ret.sid)
           idx == signal_indices("eda_view", view_ret.signals, 0)
       IN IF i = 0
          THEN /\ view_ret' = Refused(404)
               /\ lazy' = lazy
          ELSE IF lazy[i].user_id # view_ret.user
          THEN /\ view_ret' = Refused(403)
               /\ lazy' = touch(lazy, i, now)
          ELSE LET s == preloaded_all(touch(lazy, i, now)[i],
                                      IF idx.ok THEN idx.val ELSE <<>>)
               IN /\ view_ret' = view_response("eda_view", s.signals,
                                               s.t_min, s.t_max)
                  /\ lazy' = [lazy EXCEPT ![i] =
                                IF view_ret'.status = 400
                                THEN touch(lazy, i, now)[i] ELSE s]
    /\ lazy_ret' = LazyReturn("view", view_ret.sid)
    /\ UNCHANGED <<now, lttb_call, datastore>>
    /\ UNCHANGED notView

-----------------------------------------------------------------------------
(***************************************************************************)
(* Login and register behind the rate limiter (auth.py).  A route makes    *)
(* its rate limiter calls one by one, so the calls of concurrent requests  *)
(* interleave.  What the routes do with the users and sessions tables is   *)
(* modelled with the accounts; here it is the outcome of the step.         *)
(***************************************************************************)

\* ---- bounds of the model of the guarded routes ----
GuardTick == 900         \* seconds between two readings of the clock
GuardMaxTime == 1800     \* last reading of the clock

GuardRoutes == {"login", "register"}

IdleGuard == [pc |-> "idle", route |-> "none", key |-> "none", status |-> 0,
              did_reset |-> FALSE, during |-> FALSE]

\* the route of thread r returns
GuardRespond(r, status) ==
    guard' = [guard EXCEPT ![r].pc = "idle", ![r].status = status]

\* login: the body is checked, then is_locked(rate_key);
\* register: is_locked("register:" + client_ip), then the body is checked
GuardBegin(r, route, k, valid) ==
    /\ guard[r].pc = "idle"
    /\ LET g == [IdleGuard EXCEPT !.route = route, !.key = k]
       IN IF route = "login" /\ ~valid
          THEN /\ guard' = [guard EXCEPT ![r] = [g EXCEPT !.status = 400]]
               /\ UNCHANGED <<now, rlVars>>
          ELSE /\ is_locked(k)
               /\ guard' = [guard EXCEPT ![r] =
                    IF rl_ret'.ok THEN [g EXCEPT !.status = 429]
                    ELSE IF ~valid THEN [g EXCEPT !.status = 400]
                    ELSE [g EXCEPT !.pc = "record"]]
    /\ UNCHANGED notGuard

\* allowed, _ = rate_limiter.record_attempt(key)
GuardRecord(r) ==
    /\ guard[r].pc = "record"
    /\ record_attempt(guard[r].key)
    /\ IF rl_ret'.ok
       THEN guard' = [guard EXCEPT ![r].pc = "verify"]
       ELSE GuardRespond(r, 429)
    /\ UNCHANGED notGuard

\* login: get_by_email, verify_password, is_active;
\* register: user_store.create and create_session
GuardVerify(r, passes) ==
    /\ guard[r].pc = "verify"
    /\ IF passes
       THEN guard' = [guard EXCEPT ![r].pc = "reset"]
       ELSE GuardRespond(r, IF guard[r].route = "login" THEN 401 ELSE 409)
    /\ UNCHANGED <<now, rlVars>>
    /\ UNCHANGED notGuard

\* rate_limiter.reset(key); register returns 201 right after it
GuardReset(r) ==
    /\ guard[r].pc = "reset"
    /\ reset(guard[r].key)
    /\ LET k == guard[r].key
           g == [guard[r] EXCEPT !.did_reset = TRUE,
                                 !.during = lockouts[k] # NoTime /\ lockouts[k] > now]
       IN guard' = [guard EXCEPT ![r] =
            IF g.route = "register" THEN [g EXCEPT !.pc = "idle", !.status = 201]
            ELSE [g EXCEPT !.pc = "session"]]
    /\ UNCHANGED notGuard

\* login: storage.cleanup_orphans, user_store.create_session, the response
GuardSession(r) ==
    /\ guard[r].pc = "session"
    /\ GuardRespond(r, 200)
    /\ UNCHANGED <<now, rlVars>>
    /\ UNCHANGED notGuard

-----------------------------------------------------------------------------
(***************************************************************************)
(* Scripts and layouts (scripts_api.py, layouts_api.py).  A JSON file is   *)
(* known by its directory (the default one, or a user's), its id and a tag *)
(* for its content.  The routes run behind login_required or               *)
(* feature_required, so the caller is a user.                              *)
(***************************************************************************)

DocKinds == {"scripts", "layouts"}
DefaultDir == "default"         \* DEFAULT_SCRIPTS_DIR, _demo_layouts_dir
DefaultIds == {"script_demo", "demo_obd2"}
FreshIds == {"script_1a2b3c4d", "mine_1a2b3c4d"}   \* ids made with uuid4().hex[:8]
BadDocId == "../demo"
DocIds == DefaultIds \cup FreshIds \cup {BadDocId}
Contents == {"v1", "v2"}        \* request bodies that pass the validation

\* ^script_[a-zA-Z0-9_]+$ or a UUID
is_valid_script_id(id) == id \in {"script_demo", "script_1a2b3c4d"}

\* re.sub(r"[^a-zA-Z0-9_-]", "", layout_id) == layout_id
is_valid_layout_id(id) == id # BadDocId

NoScript == [owner |-> "none", readonly |-> FALSE, content |-> NoFile]

\* load_script(script_id, user_id): the user's file first, then the default
load_script(id, u) ==
    IF ~is_valid_script_id(id) THEN NoScript
    ELSE IF docs["scripts"][u][id] # NoFile
    THEN [owner |-> u, readonly |-> FALSE, content |-> docs["scripts"][u][id]]
    ELSE IF docs["scripts"][DefaultDir][id] # NoFile
    THEN [owner |-> NULL, readonly |-> TRUE,
          content |-> docs["scripts"][DefaultDir][id]]
    ELSE NoScript

\* save_script(script_data, user_id) / json.dump into the user's directory
write_doc(kind, u, id, content) == [docs EXCEPT ![kind][u][id] = content]

NoDocCall == [op |-> "none", user |-> "none", id |-> "none", status |-> 0]

DocReturn(op, u, id, status) ==
    doc_ret' = [op |-> op, user |-> u, id |-> id, status |-> status]

\* the default directories as the server finds or makes them at start-up
DocsInit ==
    /\ docs = [kind \in DocKinds |-> [dir \in Users \cup {DefaultDir} |->
                [id \in DocIds |->
                    IF /\ dir = DefaultDir
                       /\ id = (IF kind = "scripts" THEN "script_demo" ELSE "demo_obd2")
                    THEN "demo" ELSE NoFile]]]
    /\ doc_ret = NoDocCall

\* POST /api/scripts: script_id = "script_" + uuid4().hex[:8]
CreateScript(u, id, body) ==
    /\ id \in FreshIds /\ is_valid_script_id(id)
    /\ \A dir \in Users \cup {DefaultDir} : docs["scripts"][dir][id] = NoFile
    /\ IF body \notin Contents
       THEN DocReturn("create_script", u, id, 400) /\ UNCHANGED docs
       ELSE /\ docs' = write_doc("scripts", u, id, body)
            /\ DocReturn("create_script", u, id, 201)
    /\ UNCHANGED notDocs

\* Mutant of script_writable: the read-only and owner tests are dropped.
script_writable_noCheck(existing, u) == TRUE

\* update_script / delete_script / run_script: not existing.get('_readonly')
\* and existing.get('_owner') == user.id
script_writable(existing, u) == ~existing.readonly /\ existing.owner = u

\* PUT /api/scripts/<script_id>
UpdateScript(u, id, body) ==
    /\ LET existing == load_script(id, u)
       IN IF ~is_valid_script_id(id)
          THEN DocReturn("update_script", u, id, 400) /\ UNCHANGED docs
          ELSE IF existing = NoScript
          THEN DocReturn("update_script", u, id, 404) /\ UNCHANGED docs
          ELSE IF ~script_writable(existing, u)
          THEN DocReturn("update_script", u, id, 403) /\ UNCHANGED docs
          ELSE IF body \notin Contents
          THEN DocReturn("update_script", u, id, 400) /\ UNCHANGED docs
          ELSE /\ docs' = write_doc("scripts", u, id, body)
               /\ DocReturn("update_script", u, id, 200)
    /\ UNCHANGED notDocs

\* delete_script_file(script_id, user_id): unlinks the user's file
delete_script_file(id, u) ==
    IF docs["scripts"][u][id] # NoFile THEN write_doc("scripts", u, id, NoFile) ELSE docs

\* DELETE /api/scripts/<script_id>
DeleteScript(u, id) ==
    /\ LET existing == load_script(id, u)
       IN IF ~is_valid_script_id(id)
          THEN DocReturn("delete_script", u, id, 400) /\ UNCHANGED docs
          ELSE IF existing = NoScript
          THEN DocReturn("delete_script", u, id, 404) /\ UNCHANGED docs
          ELSE IF ~script_writable(existing, u)
          THEN DocReturn("delete_script", u, id, 403) /\ UNCHANGED docs
          ELSE /\ docs' = delete_script_file(id, u)
               /\ DocReturn("delete_script", u, id,
                            IF docs["scripts"][u][id] # NoFile THEN 200 ELSE 500)
    /\ UNCHANGED notDocs

VALID_BLOCK_TYPES ==
    {"section", "text", "callout", "lineplot", "table", "metrics", "histogram",
     "scatter", "code"}

\* a block: its type and, for a code block, config['code']
Block(type, code) == [type |-> type, code |-> code]

\* the custom code of the code block of the model: import math
CustomCode == [NoCode EXCEPT !.stmts = <<Node("Import", "math", NULL, NULL)>>,
                             !.length = 100]

\* script['blocks'], by the tag of the content of the file
blocks_of(content) ==
    CASE content = "v1" -> <<Block("section", NoCode), Block("text", NoCode)>>
      [] content = "v2" -> <<Block("metrics", NoCode), Block("code", CustomCode)>>
      [] content = "demo" -> <<Block("section", NoCode), Block("lineplot", NoCode),
                               Block("table", NoCode)>>
      [] OTHER -> << >>

\* check_code_safety(code): safe, and the errors of the validator
check_code_safety(code) ==
    IF code.length > MAX_CODE_LENGTH
    THEN [safe |-> FALSE, errors |-> {"Code trop long"}]
    ELSE IF ~code.parses
    THEN [safe |-> FALSE, errors |-> {"Erreur de syntaxe"}]
    ELSE LET errors == UNION {visit(code.stmts[i]) : i \in 1..Len(code.stmts)}
         IN [safe |-> errors = {}, errors |-> errors]

validate_block(block) ==
    /\ block.type \in VALID_BLOCK_TYPES
    /\ block.type = "code" => check_code_safety(block.code).safe

validate_blocks(blocks) == \A i \in 1..Len(blocks) : validate_block(blocks[i])

\* the statements generate_python_code appends for a block: the custom code
\* of a code block that check_code_safety finds safe, and else a call
\* report.add(...)
block_lines(block) ==
    IF block.type # "code" THEN <<Node("Call", "add", "report", "Attribute")>>
    ELSE IF check_code_safety(block.code).safe THEN block.code.stmts
    ELSE << >>

RECURSIVE lines_from(_, _)
lines_from(blocks, i) ==
    IF i > Len(blocks) THEN << >>
    ELSE block_lines(blocks[i]) \o lines_from(blocks, i + 1)

\* generate_python_code(script): the imports of numpy, pandas and
\* report_builder, def generate_report(df, output_path), and in it the
\* ReportBuilder(...), the lines of the blocks and report.save(output_path)
generate_python_code(blocks) ==
    [NoCode EXCEPT
        !.stmts = <<Node("Import", "numpy", "np", NULL),
                    Node("Import", "pandas", "pd", NULL),
                    Node("ImportFrom", "report_builder", "ReportBuilder", NULL),
                    Node("FunctionDef", "generate_report", NULL, NULL),
                    Node("Call", "ReportBuilder", NULL, "Name")>>
                  \o lines_from(blocks, 1)
                  \o <<Node("Call", "save", "report", "Attribute")>>,
        !.length = 1000]

\* POST /api/scripts/<script_id>/run: the blocks are validated, the code is
\* generated and checked, and lastRun is saved in a user's script
RunScript(u, id) ==
    /\ LET script == load_script(id, u)
           blocks == blocks_of(script.content)
       IN IF ~is_valid_script_id(id)
          THEN DocReturn("run_script", u, id, 400) /\ UNCHANGED docs
          ELSE IF script = NoScript
          THEN DocReturn("run_script", u, id, 404) /\ UNCHANGED docs
          ELSE IF ~validate_blocks(blocks)
          THEN DocReturn("run_script", u, id, 400) /\ UNCHANGED docs
          ELSE IF ~check_code_safety(generate_python_code(blocks)).safe
          THEN DocReturn("run_script", u, id, 400) /\ UNCHANGED docs
          ELSE /\ docs' = IF script_writable(script, u)
                          THEN write_doc("scripts", u, id, "ran") ELSE docs
               /\ DocReturn("run_script", u, id, 200)
    /\ UNCHANGED notDocs

\* POST /api/layouts: layout_id = _sanitize_filename(name) + "_" + uuid4().hex[:8]
SaveLayout(u, id, body) ==
    /\ id \in FreshIds
    /\ \A dir \in Users \cup {DefaultDir} : docs["layouts"][dir][id] = NoFile
    /\ IF body \notin Contents
       THEN DocReturn("save_layout", u, id, 400) /\ UNCHANGED docs
       ELSE /\ docs' = write_doc("layouts", u, id, body)
            /\ DocReturn("save_layout", u, id, 200)
    /\ UNCHANGED notDocs

\* PUT /api/layouts/<layout_id>
UpdateLayout(u, id, body) ==
    /\ IF ~is_valid_layout_id(id)
       THEN DocReturn("update_layout", u, id, 400) /\ UNCHANGED docs
       ELSE IF docs["layouts"][u][id] = NoFile
       THEN DocReturn("update_layout", u, id, 404) /\ UNCHANGED docs
       ELSE IF body \notin Contents
       THEN DocReturn("update_layout", u, id, 400) /\ UNCHANGED docs
       ELSE /\ docs' = write_doc("layouts", u, id, body)
            /\ DocReturn("update_layout", u, id, 200)
    /\ UNCHANGED notDocs

\* DELETE /api/layouts/<layout_id>
DeleteLayout(u, id) ==
    /\ IF ~is_valid_layout_id(id)
       THEN DocReturn("delete_layout", u, id, 400) /\ UNCHANGED docs
       ELSE IF docs["layouts"][u][id] = NoFile
       THEN DocReturn("delete_layout", u, id, 404) /\ UNCHANGED docs
       ELSE /\ docs' = write_doc("layouts", u, id, NoFile)
            /\ DocReturn("delete_layout", u, id, 200)
    /\ UNCHANGED notDocs

-----------------------------------------------------------------------------
(***************************************************************************)
(* JSON documents given to save_json (user_storage.py).  A value is a      *)
(* dict, a list or a scalar; a dict is known by its values, which is all   *)
(* validate_json_depth reads.                                              *)
(***************************************************************************)

\* ---- bound of the documents ----
MaxNest == 12            \* containers inside one another, the root one apart

\* ---- program constant ----
MAX_JSON_DEPTH == 10

Scalar == [kind |-> "scalar", items |-> << >>]
EmptyList == [kind |-> "list", items |-> << >>]
EmptyDict == [kind |-> "dict", items |-> << >>]

\* inner wrapped in n containers, lists and dicts in turn
RECURSIVE Chain(_, _)
Chain(n, inner) ==
    IF n = 0 THEN inner
    ELSE [kind |-> IF n % 2 = 0 THEN "dict" ELSE "list",
          items |-> <<Chain(n - 1, inner)>>]

\* a scalar or an empty list at level n; the same next to a scalar; a root
\* that is a list
JsonDocs ==
    {EmptyDict}
    \cup {[kind |-> "dict", items |-> <<Chain(n, inner)>>] :
            n \in 0..MaxNest, inner \in {Scalar, EmptyList}}
    \cup {[kind |-> "dict", items |-> <<Scalar, Chain(n, inner)>>] :
            n \in (MaxNest - 3)..MaxNest, inner \in {Scalar, EmptyList}}
    \cup {[kind |-> "list", items |-> <<Scalar>>]}

\* Mutant of too_deep: level MAX_JSON_DEPTH is refused as well.
too_deep_from10(current_depth) == current_depth >= MAX_JSON_DEPTH

\* validate_json_depth: if current_depth > MAX_JSON_DEPTH
too_deep(current_depth) == current_depth > MAX_JSON_DEPTH

RECURSIVE validate_json_depth(_, _)
validate_json_depth(obj, current_depth) ==
    IF too_deep(current_depth) THEN FALSE
    ELSE IF obj.kind \in {"dict", "list"}
    THEN \A i \in 1..Len(obj.items) :
            validate_json_depth(obj.items[i], current_depth + 1)
    ELSE TRUE

\* save_json(user_id, category, name, data): the tests on data, then the
\* size test and the upload as SaveBegin has them
SaveJson(t, u, category, size) ==
    /\ th[t].pc = "idle"
    /\ IF /\ category \in JsonCategories
          /\ is_valid_uuid(u)
          /\ (json_doc.kind # "dict" \/ ~validate_json_depth(json_doc, 0))
       THEN /\ Return(t, "save_json", NoId, NULL,
                      IF json_doc.kind # "dict" THEN "ValueError"
                      ELSE "JSON trop profond")
            /\ UNCHANGED <<rows, disk, quotas, quotaChanged, upload_locks, nextId>>
            /\ UNCHANGED notStorage
       ELSE SaveBegin(t, "save_json", u, category, size)

-----------------------------------------------------------------------------
(***************************************************************************)
(* Computed variables (computed_variables.py).  A formula is a sequence of *)
(* tokens; a token is a sequence of characters, a word (letters, digits,   *)
(* underscores) or one punctuation character.  Two words are never next    *)
(* to each other, so the tokens that are words are the maximal runs of     *)
(* word characters of the text, which is what \b...\b matches.             *)
(***************************************************************************)

Dot == <<".">>
LParen == <<"(">>
RParen == <<")">>
Plus == <<"+">>
Punctuation == {Dot, LParen, RParen, Plus}

W_A == <<"A">>
W_B == <<"B">>
W_sin == <<"s", "i", "n">>
W_pi == <<"p", "i">>
W_OS == <<"O", "S">>
W_open == <<"o", "p", "e", "n">>
W_T == <<"T">>
W_tofile == <<"t", "o", "f", "i", "l", "e">>
W_class == <<"_", "_", "c", "_", "_">>
W_dir == <<"d", "i", "r">>

\* ---- inputs ----
FormulaNames == {W_A, W_B, W_sin, W_pi, W_OS, W_open, W_class}
FormulaAttrs == {W_T, W_tofile, W_class, W_dir}
\* the letters bound to signals by the request
signal_data == {W_A}
\* the formulas: a name, attributes of it, calls, a sum, and a call left open
Formulas ==
    {<<n>> : n \in FormulaNames}
    \cup {<<n, Dot, a>> : n \in FormulaNames, a \in FormulaAttrs}
    \cup {<<n, Dot, a, LParen, RParen>> : n \in {W_A, W_sin}, a \in FormulaAttrs}
    \cup {<<n, Dot, a, Dot, b>> : n \in {W_A, W_pi}, a \in FormulaAttrs, b \in FormulaAttrs}
    \cup {<<f, LParen, n, RParen>> : f \in FormulaNames, n \in FormulaNames}
    \cup {<<f, LParen, n, Dot, a, RParen>> : f \in {W_sin, W_open}, n \in {W_A, W_B},
                                              a \in FormulaAttrs}
    \cup {<<n, Plus, k>> : n \in FormulaNames, k \in FormulaNames}
    \cup {<<f, LParen, n>> : f \in {W_sin}, n \in FormulaNames}

\* ALLOWED_FUNCTIONS, the keys the formulas above can spell
ALLOWED_FUNCTIONS == {W_sin, W_pi}

\* the words of FORBIDDEN_PATTERNS, \b__\w+__\b apart
FORBIDDEN_PATTERNS ==
    {<<"i", "m", "p", "o", "r", "t">>, <<"e", "x", "e", "c">>, <<"e", "v", "a", "l">>,
     <<"c", "o", "m", "p", "i", "l", "e">>, W_open, <<"f", "i", "l", "e">>,
     <<"g", "e", "t", "a", "t", "t", "r">>, <<"s", "e", "t", "a", "t", "t", "r">>,
     <<"d", "e", "l", "a", "t", "t", "r">>, <<"g", "l", "o", "b", "a", "l", "s">>,
     <<"l", "o", "c", "a", "l", "s">>, <<"v", "a", "r", "s">>, W_dir, <<"o", "s">>,
     <<"s", "y", "s">>, <<"s", "u", "b", "p", "r", "o", "c", "e", "s", "s">>,
     <<"l", "a", "m", "b", "d", "a">>, <<"c", "l", "a", "s", "s">>, <<"d", "e", "f">>}

\* re.IGNORECASE, on the capitals the formulas use
lower(c) ==
    CASE c = "O" -> "o" [] c = "S" -> "s" [] c = "A" -> "a" [] c = "B" -> "b"
      [] c = "T" -> "t" [] OTHER -> c

\* \b__\w+__\b on a word
is_dunder_word(w) ==
    /\ Len(w) >= 5
    /\ w[1] = "_" /\ w[2] = "_" /\ w[Len(w) - 1] = "_" /\ w[Len(w)] = "_"

\* re.search(pattern, formula, re.IGNORECASE) for some pattern
matches_forbidden(f) ==
    \E i \in 1..Len(f) :
        /\ f[i] \notin Punctuation
        /\ \/ [k \in 1..Len(f[i]) |-> lower(f[i][k])] \in FORBIDDEN_PATTERNS
           \/ is_dunder_word(f[i])

count(f, tok) == Cardinality({i \in 1..Len(f) : f[i] = tok})

\* validate_formula(formula): the refusal, or "ok"
validate_formula(f) ==
    IF Len(f) = 0 THEN "La formule ne peut pas être vide"
    ELSE IF matches_forbidden(f) THEN "Expression non autorisée dans la formule"
    ELSE IF count(f, LParen) # count(f, RParen) THEN "Parenthèses non équilibrées"
    ELSE "ok"

\* get_formula_variables: the words that are one capital letter
get_formula_variables(f) ==
    {f[i] : i \in {j \in 1..Len(f) : Len(f[j]) = 1 /\ f[j][1] \in {"A", "B", "T", "O", "S"}}}

\* the attributes an ndarray, a ufunc or a float has, of those the formulas name
has_attribute(base_is_array, a) ==
    IF base_is_array THEN a \in {W_T, W_tofile, W_class} ELSE a = W_class

FormulaInit ==
    /\ formula = << >>
    /\ f_pc = "start"
    /\ f_pos = 0
    /\ reached = {}
    /\ f_result = "none"

\* compute_formula, up to the call of eval
ComputeFormula ==
    /\ f_pc = "start"
    /\ Len(formula) > 0
    /\ LET error == validate_formula(formula)
           missing_vars == get_formula_variables(formula) \ signal_data
       IN IF error # "ok"
          THEN f_pc' = "done" /\ f_result' = error /\ f_pos' = f_pos
          ELSE IF missing_vars # {}
          THEN f_pc' = "done" /\ f_result' = "Variables non définies" /\ f_pos' = f_pos
          ELSE f_pc' = "eval" /\ f_pos' = 1 /\ f_result' = f_result
    /\ UNCHANGED <<formula, reached>>
    /\ UNCHANGED notFormula

\* eval(formula, {"__builtins__": {}}, namespace), one token at a time: a
\* name is looked up in the namespace, an attribute is read from the value
\* to the left of the dot
EvalToken ==
    /\ f_pc = "eval"
    /\ f_pos <= Len(formula)
    /\ LET tok == formula[f_pos]
           namespace == ALLOWED_FUNCTIONS \cup signal_data
           is_attr == f_pos > 1 /\ formula[f_pos - 1] = Dot
           base_is_array == f_pos = 3 /\ formula[1] \in signal_data
       IN IF tok \in Punctuation
          THEN f_pos' = f_pos + 1 /\ UNCHANGED <<f_pc, reached, f_result>>
          ELSE IF is_attr
          THEN IF has_attribute(base_is_array, tok)
               THEN /\ reached' = reached \cup {<<"attr", tok>>}
                    /\ f_pos' = f_pos + 1
                    /\ UNCHANGED <<f_pc, f_result>>
               ELSE /\ f_pc' = "done" /\ f_result' = "Erreur d'évaluation"
                    /\ UNCHANGED <<f_pos, reached>>
          ELSE IF tok \in namespace
               THEN /\ reached' = reached \cup {<<"name", tok>>}
                    /\ f_pos' = f_pos + 1
                    /\ UNCHANGED <<f_pc, f_result>>
               ELSE /\ f_pc' = "done" /\ f_result' = "Erreur d'évaluation"
                    /\ UNCHANGED <<f_pos, reached>>
    /\ UNCHANGED formula
    /\ UNCHANGED notFormula

\* eval returns
EvalReturns ==
    /\ f_pc = "eval"
    /\ f_pos > Len(formula)
    /\ f_pc' = "done"
    /\ f_result' = "evaluated"
    /\ UNCHANGED <<formula, f_pos, reached>>
    /\ UNCHANGED notFormula

-----------------------------------------------------------------------------
(***************************************************************************)
(* is_safe_path, as server.py, user_storage.py, scripts_api.py and         *)
(* core/security.py each define it.  A path is absolute, a sequence of     *)
(* components; a component is a sequence of characters.                    *)
(***************************************************************************)

\* ---- bound of the paths ----
MaxComponents == 3

DirT == <<"t">>
DirTx == <<"t", "x">>
DirU == <<"u">>
DotDot == <<".", ".">>
\* ---- inputs ----
Components == {DirT, DirTx, DirU, DotDot}
BaseDirs == {<<DirT>>, <<DirT, DirU>>}
RequestedPaths == UNION {[1..n -> Components] : n \in 0..MaxComponents}
PathModules == {"server", "user_storage", "scripts_api", "core.security"}

\* Path.resolve() where nothing is a link: .. leaves a directory, and the
\* root is its own parent
RECURSIVE resolve_onto(_, _)
resolve_onto(done, rest) ==
    IF rest = << >> THEN done
    ELSE IF Head(rest) = DotDot
    THEN resolve_onto(IF done = << >> THEN done ELSE SubSeq(done, 1, Len(done) - 1),
                      Tail(rest))
    ELSE resolve_onto(Append(done, Head(rest)), Tail(rest))

resolve(path) == resolve_onto(<< >>, path)

\* str(path): the components, each after a slash
RECURSIVE path_str(_)
path_str(path) ==
    IF path = << >> THEN <<"/">>
    ELSE IF Len(path) = 1 THEN <<"/">> \o path[1]
    ELSE path_str(SubSeq(path, 1, Len(path) - 1)) \o <<"/">> \o path[Len(path)]

\* str.startswith
startswith(str, prefix) ==
    Len(prefix) <= Len(str) /\ SubSeq(str, 1, Len(prefix)) = prefix

\* Path.parents: the directories above the path, the root included
parents(path) == {SubSeq(path, 1, n) : n \in 0..(Len(path) - 1)}

\* server.py, user_storage.py, scripts_api.py:
\* str(requested_resolved).startswith(str(base_resolved))
is_safe_path_prefix(base, requested) ==
    startswith(path_str(resolve(requested)), path_str(resolve(base)))

\* core/security.py:
\* base_resolved in requested_resolved.parents or requested_resolved == base_resolved
is_safe_path(base, requested) ==
    \/ resolve(base) \in parents(resolve(requested))
    \/ resolve(requested) = resolve(base)

PathsInit ==
    /\ base_dir = <<DirT>>
    /\ requested_path = << >>
    /\ safe_ret = [mod \in PathModules |-> "none"]

\* one module's is_safe_path(base_dir, requested_path) is called
IsSafePath(mod) ==
    /\ safe_ret[mod] = "none"
    /\ LET answer == IF mod = "core.security"
                     THEN is_safe_path(base_dir, requested_path)
                     ELSE is_safe_path_prefix(base_dir, requested_path)
       IN safe_ret' = [safe_ret EXCEPT ![mod] = IF answer THEN "true" ELSE "false"]
    /\ UNCHANGED <<base_dir, requested_path>>
    /\ UNCHANGED notPaths

-----------------------------------------------------------------------------
(***************************************************************************)
(* The metrics collector (metrics.py): request threads in record_request   *)
(* and the cleanup thread, all on MetricsCollector._lock, which is a       *)
(* threading.Lock: a thread that acquires it while it holds it waits.      *)
(***************************************************************************)

\* ---- program constant ----
buffer_max_size == 1000

RequestThreads == {"req1", "req2"}
CleanupThread == "cleanup"
MetricThreads == RequestThreads \cup {CleanupThread}
Unlocked == "free"

MetricsInit ==
    /\ m_pc = [t \in MetricThreads |-> IF t = CleanupThread THEN "sleep" ELSE "idle"]
    /\ m_lock = Unlocked
    /\ request_buffer = 0
    /\ daily_stats = FALSE

\* record_request is called: the metric is built
RecordRequest(t) ==
    /\ m_pc[t] = "idle"
    /\ m_pc' = [m_pc EXCEPT ![t] = "acquire"]
    /\ UNCHANGED <<m_lock, request_buffer, daily_stats>>
    /\ UNCHANGED notMetrics

\* record_request: with self._lock
RecordAcquire(t) ==
    /\ m_pc[t] = "acquire"
    /\ m_lock = Unlocked
    /\ m_lock' = t
    /\ m_pc' = [m_pc EXCEPT ![t] = "append"]
    /\ UNCHANGED <<request_buffer, daily_stats>>
    /\ UNCHANGED notMetrics

\* record_request: append, then _flush_buffer() when the buffer is full,
\* the end of the with block otherwise
RecordAppend(t) ==
    /\ m_pc[t] = "append"
    /\ request_buffer' = request_buffer + 1
    /\ IF request_buffer' >= buffer_max_size
       THEN m_pc' = [m_pc EXCEPT ![t] = "flush_acquire"] /\ m_lock' = m_lock
       ELSE m_pc' = [m_pc EXCEPT ![t] = "idle"] /\ m_lock' = Unlocked
    /\ UNCHANGED daily_stats
    /\ UNCHANGED notMetrics

\* cleanup_loop: the sleep ends; _cleanup_sessions takes the lock and gives
\* it back, then _flush_buffer is called
CleanupWakes ==
    /\ m_pc[CleanupThread] = "sleep"
    /\ m_lock = Unlocked
    /\ m_pc' = [m_pc EXCEPT ![CleanupThread] = "flush_acquire"]
    /\ UNCHANGED <<m_lock, request_buffer, daily_stats>>
    /\ UNCHANGED notMetrics

\* _flush_buffer: with self._lock
FlushAcquire(t) ==
    /\ m_pc[t] = "flush_acquire"
    /\ m_lock = Unlocked
    /\ m_lock' = t
    /\ m_pc' = [m_pc EXCEPT ![t] = "flush"]
    /\ UNCHANGED <<request_buffer, daily_stats>>
    /\ UNCHANGED notMetrics

\* _flush_buffer: the entries are aggregated and the buffer cleared; the
\* end of its with block; the caller goes on (record_request to the end of
\* its own with block, cleanup_loop to _save_stats and the sleep)
FlushBuffer(t) ==
    /\ m_pc[t] = "flush"
    /\ IF request_buffer = 0
       THEN UNCHANGED <<request_buffer, daily_stats>>
       ELSE request_buffer' = 0 /\ daily_stats' = TRUE
    /\ m_lock' = Unlocked
    /\ m_pc' = [m_pc EXCEPT ![t] = IF t = CleanupThread THEN "sleep" ELSE "idle"]
    /\ UNCHANGED notMetrics

-----------------------------------------------------------------------------
(***************************************************************************)
(* One lazy session under concurrent requests (lazy_eda.py; the server     *)
(* runs with threaded=True).  LazyEDAManager has no lock: a call is a      *)
(* sequence of steps, one per access to the file, and the steps of two     *)
(* calls interleave.  The session has a DBC file; opening the recording    *)
(* and decoding the bus may each raise.                                    *)
(***************************************************************************)

\* ---- inputs ----
\* the names of the channels of the file, as channels_db gives them
FileChannels == <<"rpm", "speed">>
NoHandle == 0

IdleLazyThread == [pc |-> "idle", valid_signals |-> 0]

LazyOpsInit ==
    /\ ls_session = [listed |-> FALSE, mdf_handle |-> NoHandle, signals |-> << >>,
                     signal_names |-> << >>, n_signals |-> 0]
    /\ ls_registered = TRUE
    /\ ls_open = {}
    /\ ls_th = [t \in Threads |-> IdleLazyThread]
    /\ ls_loaded = {}

\* list_signals: get_session and the test of session.listed
ListBegin(t) ==
    /\ ls_th[t].pc = "idle"
    /\ IF ls_registered /\ ~ls_session.listed
       THEN ls_th' = [ls_th EXCEPT ![t].pc = "open"]
       ELSE ls_th' = ls_th
    /\ UNCHANGED <<ls_session, ls_registered, ls_open, ls_loaded>>
    /\ UNCHANGED notLazyOps

\* what MDF(...) followed by extract_bus_logging(...) comes to
OpenOutcomes == {"opened", "MDF raises", "extract_bus_logging raises"}

\* list_signals: mdf = MDF(session.mf4_path), the bus decoding, and
\* session.mdf_handle = mdf.  When one of the two raises, the except clause
\* closes session.mdf_handle if it is set, sets it to None and re-raises;
\* the local mdf that extract_bus_logging was called on is closed nowhere.
ListOpen(t, outcome) ==
    /\ ls_th[t].pc = "open"
    /\ IF outcome = "opened"
       THEN /\ ls_open' = ls_open \cup {t}
            /\ ls_session' = [ls_session EXCEPT !.mdf_handle = t]
            /\ ls_th' = [ls_th EXCEPT ![t] = [pc |-> "collect", valid_signals |-> 0]]
       ELSE /\ ls_open' = (ls_open \ {ls_session.mdf_handle})
                              \cup (IF outcome = "extract_bus_logging raises"
                                    THEN {t} ELSE {})
            /\ ls_session' = [ls_session EXCEPT !.mdf_handle = NoHandle]
            /\ ls_th' = [ls_th EXCEPT ![t] = IdleLazyThread]
    /\ UNCHANGED <<ls_registered, ls_loaded>>
    /\ UNCHANGED notLazyOps

\* session.signals[index] = name
set_signal(signals, index, name) ==
    IF index < Len(signals) THEN [signals EXCEPT ![index + 1] = name]
    ELSE Append(signals, name)

\* list_signals: one turn of the loop over channel_info
ListChannel(t) ==
    /\ ls_th[t].pc = "collect"
    /\ ls_th[t].valid_signals < Len(FileChannels)
    /\ LET name == FileChannels[ls_th[t].valid_signals + 1]
       IN ls_session' = [ls_session EXCEPT
              !.signals = set_signal(@, ls_th[t].valid_signals, name),
              !.signal_names = Append(@, name)]
    /\ ls_th' = [ls_th EXCEPT ![t].valid_signals = @ + 1]
    /\ UNCHANGED <<ls_registered, ls_open, ls_loaded>>
    /\ UNCHANGED notLazyOps

\* list_signals: n_signals, listed, and the return
ListFinish(t) ==
    /\ ls_th[t].pc = "collect"
    /\ ls_th[t].valid_signals = Len(FileChannels)
    /\ ls_session' = [ls_session EXCEPT !.n_signals = ls_th[t].valid_signals,
                                        !.listed = TRUE]
    /\ ls_th' = [ls_th EXCEPT ![t] = IdleLazyThread]
    /\ UNCHANGED <<ls_registered, ls_open, ls_loaded>>
    /\ UNCHANGED notLazyOps

\* preload_signal: the tests, then mdf = session.mdf_handle, reopened when
\* it is None
PreloadBegin(t, signal_index) ==
    /\ ls_th[t].pc = "idle"
    /\ IF \/ ~ls_registered \/ ~ls_session.listed
          \/ signal_index >= Len(ls_session.signals)
          \/ signal_index \in ls_loaded
       THEN UNCHANGED <<ls_th, ls_session, ls_open>>
       ELSE /\ ls_th' = [ls_th EXCEPT ![t] = [pc |-> "get", valid_signals |-> signal_index]]
            /\ IF ls_session.mdf_handle = NoHandle
               THEN /\ ls_open' = ls_open \cup {t}
                    /\ ls_session' = [ls_session EXCEPT !.mdf_handle = t]
               ELSE UNCHANGED <<ls_session, ls_open>>
    /\ UNCHANGED <<ls_registered, ls_loaded>>
    /\ UNCHANGED notLazyOps

\* preload_signal: mdf.get and the loaded data; an error is answered when
\* the handle has been closed
PreloadGet(t) ==
    /\ ls_th[t].pc = "get"
    /\ ls_loaded' = IF ls_session.mdf_handle \in ls_open
                    THEN ls_loaded \cup {ls_th[t].valid_signals}
                    ELSE ls_loaded
    /\ ls_th' = [ls_th EXCEPT ![t] = IdleLazyThread]
    /\ UNCHANGED <<ls_session, ls_registered, ls_open>>
    /\ UNCHANGED notLazyOps

\* close_session: the session is popped and its handle closed
CloseSessionNow(t) ==
    /\ ls_th[t].pc = "idle"
    /\ ls_registered
    /\ ls_registered' = FALSE
    /\ ls_open' = ls_open \ {ls_session.mdf_handle}
    /\ UNCHANGED <<ls_session, ls_th, ls_loaded>>
    /\ UNCHANGED notLazyOps

-----------------------------------------------------------------------------
(***************************************************************************)
(* Initial conditions and specifications.                                  *)
(***************************************************************************)

ViewInit ==
    /\ lttb_call = NoLttbCall
    /\ datastore = <<>>
    /\ view_ret = NoView
    /\ lazy = <<>>
    /\ lazy_ret = NoLazyCall

ServiceInit ==
    /\ guard = [r \in Reqs |-> IdleGuard]
    /\ DocsInit
    /\ json_doc = EmptyDict
    /\ FormulaInit
    /\ PathsInit
    /\ MetricsInit
    /\ LazyOpsInit
    /\ sb_put = NoPut

InitStorage == FreshStore /\ now = 0 /\ RlInit /\ SessionsInit /\ SandboxInit
               /\ TasksInit /\ AccountsInit /\ ViewInit /\ ServiceInit

InitFiles == PopulatedStore /\ now = 0 /\ RlInit /\ SessionsInit /\ SandboxInit
               /\ TasksInit /\ AccountsInit /\ ViewInit /\ ServiceInit

InitRl == PopulatedStore /\ now = 0 /\ RlInit /\ SessionsInit /\ SandboxInit
               /\ TasksInit /\ AccountsInit /\ ViewInit /\ ServiceInit

InitSessions == PopulatedStore /\ now = 0 /\ RlInit /\ SessionsInit /\ SandboxInit
               /\ TasksInit /\ AccountsInit /\ ViewInit /\ ServiceInit

InitSandbox == PopulatedStore /\ now = 0 /\ RlInit /\ SessionsInit /\ SandboxInit
               /\ TasksInit /\ AccountsInit /\ ViewInit /\ ServiceInit

InitTasks == PopulatedStore /\ now = 0 /\ RlInit /\ SessionsInit /\ SandboxInit
               /\ TasksInit /\ AccountsInit /\ ViewInit /\ ServiceInit

\* an empty users table and an empty sessions table
InitRegister ==
    /\ PopulatedStore /\ now = 0 /\ RlInit /\ SandboxInit /\ TasksInit
    /\ AccountsInit /\ ViewInit /\ ServiceInit
    /\ sessions = [t \in TokenSet |-> NoSession]
    /\ s_ret = NoSessionCall

InitPassword ==
    /\ PopulatedStore /\ now = 0 /\ RlInit /\ SandboxInit /\ TasksInit
    /\ AccountsPopulated /\ ViewInit /\ ServiceInit

InitAdmins ==
    /\ PopulatedStore /\ now = 0 /\ RlInit /\ SandboxInit /\ TasksInit
    /\ AccountsPopulated /\ ViewInit /\ ServiceInit

\* a call of lttb_downsample on any series, with any threshold
InitLttb ==
    /\ PopulatedStore /\ now = 0 /\ RlInit /\ SessionsInit /\ SandboxInit
    /\ TasksInit /\ AccountsInit /\ ServiceInit
    /\ \E impl \in LttbImpls, n \in 0..MaxLen, threshold \in 0..MaxThreshold :
            \E s \in Series(n) : lttb_call = LttbCall(impl, s, threshold)
    /\ datastore = <<>>
    /\ view_ret = NoView
    /\ lazy = <<>>
    /\ lazy_ret = NoLazyCall

\* a view request on either route: GET /api/view on a loaded source, or
\* GET /api/eda/view/1 by user A, or by user B for the first signal and the
\* whole range, session 1 being a session of A on any recording
InitView ==
    /\ PopulatedStore /\ now = 0 /\ RlInit /\ SessionsInit /\ SandboxInit
    /\ TasksInit /\ AccountsInit /\ ServiceInit
    /\ lttb_call = NoLttbCall
    /\ lazy_ret = NoLazyCall
    /\ \/ /\ datastore \in Stores
          /\ lazy = <<>>
          /\ view_ret \in
                {ViewRequest("view", impl, "A", 0, sp, st, en, mp) :
                    impl \in LttbImpls, sp \in SignalsParams,
                    st \in StartParams, en \in EndParams,
                    mp \in MaxPointsParams}
       \/ /\ datastore = SmallStore
          /\ \E rec \in Recordings : lazy = <<LazySession(1, "A", rec, 0)>>
          /\ view_ret \in
                {ViewRequest("eda_view", impl, "A", 1, sp, st, en, mp) :
                    impl \in LttbImpls, sp \in SignalsParams,
                    st \in StartParams, en \in EndParams,
                    mp \in MaxPointsParams}
                \cup {ViewRequest("eda_view", "numba", "B", 1, <<"0">>,
                                  Absent, Absent, Absent)}

\* no lazy session yet
InitLazy ==
    /\ PopulatedStore /\ now = 0 /\ RlInit /\ SessionsInit /\ SandboxInit
    /\ TasksInit /\ AccountsInit /\ ViewInit /\ ServiceInit

\* no request yet, no attempt recorded
InitGuard ==
    /\ PopulatedStore /\ now = 0 /\ RlInit /\ SessionsInit /\ SandboxInit
    /\ TasksInit /\ AccountsInit /\ ViewInit /\ ServiceInit

\* Scenario C: user A has a quota of 10 MiB and a file of 9 MiB (or of
\* 8 MiB); two request threads have each passed the validation of an upload
\* of 2 MiB by A and are about to take A's lock.
InitQuota2 ==
    /\ now = 0 /\ RlInit /\ SessionsInit /\ SandboxInit
    /\ TasksInit /\ AccountsInit /\ ViewInit /\ ServiceInit
    /\ \E used \in {8, 9} :
         rows = [f \in FileIds |->
                   IF f = DefaultFile THEN Row(NULL, "mf4", 1, "demo", "{}")
                   ELSE IF f = 1 THEN Row("A", "mf4", used, "", "{}")
                   ELSE NoRow]
    /\ disk = [f \in FileIds |-> IF f \in {DefaultFile, 1} THEN "bytes" ELSE NoFile]
    /\ quotas = [u \in Users |-> IF u = "A" THEN 10 ELSE NoQuota]
    /\ quotaChanged = [u \in Users |-> FALSE]
    /\ upload_locks = [u \in Users |-> NoThread]
    /\ th \in [Threads ->
                {[IdleThread EXCEPT !.pc = "acquire", !.op = c[1], !.user = "A",
                                    !.category = c[2], !.size = 2] :
                    c \in {<<"save_file", "mf4">>, <<"save_file", "layouts">>,
                           <<"save_json", "layouts">>}}]
    /\ ret = NoCall
    /\ nextId = 1

\* only the default script and the demo layout exist
InitDocs ==
    /\ PopulatedStore /\ now = 0 /\ RlInit /\ SessionsInit /\ SandboxInit
    /\ TasksInit /\ AccountsInit /\ ViewInit /\ ServiceInit

\* a fresh store, and the document the save_json calls are made with
InitJson ==
    /\ FreshStore /\ now = 0 /\ RlInit /\ SessionsInit /\ SandboxInit
    /\ TasksInit /\ AccountsInit /\ ViewInit
    /\ guard = [r \in Reqs |-> IdleGuard]
    /\ DocsInit
    /\ FormulaInit
    /\ PathsInit
    /\ MetricsInit
    /\ LazyOpsInit
    /\ sb_put = NoPut
    /\ json_doc \in JsonDocs

\* a formula about to be computed
InitFormula ==
    /\ FreshStore /\ now = 0 /\ RlInit /\ SessionsInit /\ SandboxInit
    /\ TasksInit /\ AccountsInit /\ ViewInit
    /\ guard = [r \in Reqs |-> IdleGuard]
    /\ DocsInit
    /\ json_doc = EmptyDict
    /\ PathsInit
    /\ MetricsInit
    /\ LazyOpsInit
    /\ sb_put = NoPut
    /\ formula \in Formulas
    /\ f_pc = "start" /\ f_pos = 0 /\ reached = {} /\ f_result = "none"

\* a directory and a path about to be checked
InitPaths ==
    /\ FreshStore /\ now = 0 /\ RlInit /\ SessionsInit /\ SandboxInit
    /\ TasksInit /\ AccountsInit /\ ViewInit
    /\ guard = [r \in Reqs |-> IdleGuard]
    /\ DocsInit
    /\ json_doc = EmptyDict
    /\ FormulaInit
    /\ MetricsInit
    /\ LazyOpsInit
    /\ sb_put = NoPut
    /\ base_dir \in BaseDirs
    /\ requested_path \in RequestedPaths
    /\ safe_ret = [mod \in PathModules |-> "none"]

\* Uploads, deletions and quota changes of concurrent request threads.
NextStorage ==
    \/ \E t \in Threads, op \in {"save_file", "save_json"}, u \in Users \cup {BadUser},
          c \in UploadCategories, s \in Sizes : SaveBegin(t, op, u, c, s)
    \/ \E t \in Threads : SaveAcquire(t)
    \/ \E t \in Threads : SaveCheck(t)
    \/ \E t \in Threads : SaveWrite(t)
    \/ \E t \in Threads : SaveInsert(t)
    \/ \E t \in Threads, f \in FileIds \ {DefaultFile}, u \in Users :
          DeleteBegin(t, f, u)
    \/ \E t \in Threads : DeleteRow(t)
    \/ SetQuota("B", LowQuota)

\* Reads, updates and deletions on a populated file table.
NextFiles ==
    \/ \E t \in Threads, f \in PopulatedIds \cup {BadFileId}, u \in Users \cup {BadUser} :
          DeleteBegin(t, f, u)
    \/ \E t \in Threads : DeleteRow(t)
    \/ \E t \in Threads, f \in PopulatedIds, u \in Users \cup {BadUser},
          d \in Descriptions \cup {NULL}, m \in Metadatas \cup {NULL} :
          UpdateFile(t, f, u, d, m)
    \/ \E t \in Threads, op \in {"get_file", "get_file_path", "read_json"},
          f \in PopulatedIds, u \in Users \cup {NULL} : ReadFile(t, op, f, u)


\* Calls on the rate limiter while the time passes.
NextRl ==
    \/ \E k \in Keys : IsLocked(k)
    \/ \E k \in Keys : RecordAttempt(k)
    \/ \E k \in Keys : Reset(k)
    \/ Advance(RlTick, RlMaxTime)

\* Calls on the session store while the time passes.
NextSessions ==
    \/ \E u \in Users, token \in Tokens : CreateSession(u, token)
    \/ \E token \in BearerTokens : GetSession(token)
    \/ \E token \in Tokens : DeleteSession(token)
    \/ \E u \in Users : DeleteUserSessions(u)
    \/ CleanupExpiredSessions
    \/ Advance(SessTick, SessMaxTime)

\* One call of safe_execute and the child process it starts.
NextSandbox ==
    \/ \E code \in Codes : Submit(code)
    \/ Validate
    \/ StartChild
    \/ \E outcome \in {"success", "error", "empty"} : ChildExits(outcome)
    \/ \E outcome \in {"success", "error"} : WorkerPutsLarge(outcome)
    \/ ChildDies
    \/ Join
    \/ CheckAlive
    \/ Join1
    \/ Collect

\* Tasks, their worker threads, the janitor and the admin's clean-up.
NextTasks ==
    \/ \E id \in TaskIds : CreateTask(id)
    \/ \E id \in TaskIds : Begin(id)
    \/ \E id \in TaskIds : Step(id)
    \/ \E id \in TaskIds : Complete(id)
    \/ \E id \in TaskIds : WorkerRaises(id)
    \/ JanitorSweep
    \/ \E h \in {ADMIN_MIN_AGE_HOURS, ADMIN_DEFAULT_AGE_HOURS} : cleanup_conversions(h)
    \/ JanitorSleeps

\* Concurrent register and login requests.
NextRegister ==
    \/ \E r \in Reqs, u \in Users : RegisterBegin(r, u)
    \/ \E r \in Reqs : RegisterCreate(r)
    \/ \E r \in Reqs, u \in Users, p \in Passwords : LoginBegin(r, u, p)
    \/ \E r \in Reqs : MintSession(r)

\* Concurrent login and change_password requests.
NextPassword ==
    \/ \E r \in Reqs, u \in Users, p \in Passwords : LoginBegin(r, u, p)
    \/ \E r \in Reqs, t \in TokenSet, p, q \in Passwords :
          ChangePasswordBegin(r, t, p, q)
    \/ \E r \in Reqs : ChangePasswordUpdate(r)
    \/ \E r \in Reqs : ChangePasswordDelete(r)
    \/ \E r \in Reqs : MintSession(r)

\* Concurrent update_user and delete_user requests of the admins.
NextAdmins ==
    \/ \E r \in Reqs, t \in TokenSet, u \in Users, role \in Roles :
          UpdateUserBegin(r, t, u, role, Absent)
    \/ \E r \in Reqs : UpdateUserWrite(r)
    \/ \E r \in Reqs, t \in TokenSet, u \in Users : DeleteUserBegin(r, t, u)
    \/ \E r \in Reqs : DeleteUserRow(r)

\* An admin deactivates and reactivates users while the users' own login,
\* profile and change_password requests are in flight; the body of the
\* admin's request has is_active and the role the user has.  The users'
\* requests are served by thread 1, the admin's by thread 2.
NextDeactivate ==
    \/ \E u \in Users, p \in Passwords : LoginBegin(1, u, p)
    \/ MintSession(1)
    \/ \E t \in TokenSet, p, q \in Passwords : ChangePasswordBegin(1, t, p, q)
    \/ ChangePasswordUpdate(1)
    \/ ChangePasswordDelete(1)
    \/ \E t \in TokenSet : UpdateCurrentUserBegin(1, t)
    \/ UpdateCurrentUserWrite(1)
    \/ \E t \in TokenSet, u \in Users, is_active \in ActiveParams \ {Absent} :
          UpdateUserBegin(2, t, u, accounts[u].role, is_active)
    \/ UpdateUserDeleteSessions(2)
    \/ UpdateUserWrite(2)

InitDeactivate == InitPassword

SpecDeactivate == InitDeactivate /\ [][NextDeactivate]_vars

SpecStorage == InitStorage /\ [][NextStorage]_vars

SpecFiles == InitFiles /\ [][NextFiles]_vars

SpecRl == InitRl /\ [][NextRl]_vars

SpecSessions == InitSessions /\ [][NextSessions]_vars

SpecSandbox == InitSandbox /\ [][NextSandbox]_vars

SpecTasks == InitTasks /\ [][NextTasks]_vars

SpecRegister == InitRegister /\ [][NextRegister]_vars

SpecPassword == InitPassword /\ [][NextPassword]_vars

SpecAdmins == InitAdmins /\ [][NextAdmins]_vars

\* lttb_downsample as either build runs it
NextLttb ==
    \/ Downsample("numba")
    \/ Downsample("numpy")

SpecLttb == InitLttb /\ [][NextLttb]_vars

\* list_signals and preload_signal on the session, then the view request
NextView ==
    \/ GetView
    \/ ListBeforeView
    \/ \E k \in 0..1 : PreloadBeforeView(k)
    \/ GetLazyView

SpecView == InitView /\ [][NextView]_vars

\* the calls of the manager (signals are read in session 1 only), and the
\* clock
NextLazy ==
    \/ \E sid \in SessionIds : CreateLazySession(sid, "A", RecGroups)
    \/ \E sid \in SessionIds : GetLazySession(sid)
    \/ ListSignals(1)
    \/ PreloadSignal(1, 0)
    \/ \E sid \in SessionIds : CloseLazySession(sid)
    \/ Advance(LazyTick, LazyMaxTime)

SpecLazy == InitLazy /\ [][NextLazy]_vars

\* The two uploads of scenario C run to their end.
NextQuota2 ==
    \/ \E t \in Threads : SaveAcquire(t)
    \/ \E t \in Threads : SaveCheck(t)
    \/ \E t \in Threads : SaveWrite(t)
    \/ \E t \in Threads : SaveInsert(t)

SpecQuota2 == InitQuota2 /\ [][NextQuota2]_vars

\* Script and layout requests of the users, with any id and any body.
NextDocs ==
    \/ \E u \in Users, id \in FreshIds, body \in Contents \cup {"bad"} :
            CreateScript(u, id, body)
    \/ \E u \in Users, id \in DocIds, body \in Contents \cup {"bad"} :
            UpdateScript(u, id, body)
    \/ \E u \in Users, id \in DocIds : DeleteScript(u, id)
    \/ \E u \in Users, id \in DocIds : RunScript(u, id)
    \/ \E u \in Users, id \in FreshIds, body \in Contents \cup {"bad"} :
            SaveLayout(u, id, body)
    \/ \E u \in Users, id \in DocIds, body \in Contents \cup {"bad"} :
            UpdateLayout(u, id, body)
    \/ \E u \in Users, id \in DocIds : DeleteLayout(u, id)

SpecDocs == InitDocs /\ [][NextDocs]_vars

\* save_json calls of concurrent request threads, all with one document.
NextJson ==
    \/ \E t \in Threads, u \in {"A", BadUser}, c \in UploadCategories,
          size \in {1, MAX_JSON_SIZE_BYTES + 1} : SaveJson(t, u, c, size)
    \/ \E t \in Threads : SaveAcquire(t)
    \/ \E t \in Threads : SaveCheck(t)
    \/ \E t \in Threads : SaveWrite(t)
    \/ \E t \in Threads : SaveInsert(t)

SpecJson == InitJson /\ [][NextJson]_vars

\* compute_formula on one formula.
NextFormula ==
    \/ ComputeFormula
    \/ EvalToken
    \/ EvalReturns

SpecFormula == InitFormula /\ [][NextFormula]_vars

\* The four is_safe_path on one directory and one path.
NextPaths == \E mod \in PathModules : IsSafePath(mod)

SpecPaths == InitPaths /\ [][NextPaths]_vars

\* Request threads recording requests, and the cleanup thread.
NextMetrics ==
    \/ \E t \in RequestThreads : RecordRequest(t)
    \/ \E t \in RequestThreads : RecordAcquire(t)
    \/ \E t \in RequestThreads : RecordAppend(t)
    \/ CleanupWakes
    \/ \E t \in MetricThreads : FlushAcquire(t)
    \/ \E t \in MetricThreads : FlushBuffer(t)

InitMetrics == InitStorage

SpecMetrics == InitMetrics /\ [][NextMetrics]_vars

\* a thread that can take the lock again and again takes it, and a thread
\* that can go on does
SpecMetricsFair ==
    /\ SpecMetrics
    /\ \A t \in RequestThreads : SF_vars(RecordAcquire(t)) /\ WF_vars(RecordAppend(t))
    /\ \A t \in MetricThreads : SF_vars(FlushAcquire(t)) /\ WF_vars(FlushBuffer(t))

\* Concurrent calls on one lazy session.
NextLazyOps ==
    \/ \E t \in Threads : ListBegin(t)
    \/ \E t \in Threads, outcome \in OpenOutcomes : ListOpen(t, outcome)
    \/ \E t \in Threads : ListChannel(t)
    \/ \E t \in Threads : ListFinish(t)
    \/ \E t \in Threads, signal_index \in 0..Len(FileChannels) : PreloadBegin(t, signal_index)
    \/ \E t \in Threads : PreloadGet(t)
    \/ \E t \in Threads : CloseSessionNow(t)

InitLazyOps == InitStorage

SpecLazyOps == InitLazyOps /\ [][NextLazyOps]_vars

\* Logins to one account and registrations, of concurrent request threads
\* from one address: the logins share one key, the registrations another.
NextGuard ==
    \/ \E r \in Reqs, route \in GuardRoutes, valid \in BOOLEAN :
            GuardBegin(r, route, IF route = "login" THEN "ip1" ELSE "ip2", valid)
    \/ \E r \in Reqs : GuardRecord(r)
    \/ \E r \in Reqs, passes \in BOOLEAN : GuardVerify(r, passes)
    \/ \E r \in Reqs : GuardReset(r)
    \/ \E r \in Reqs : GuardSession(r)
    \/ Advance(GuardTick, GuardMaxTime)

SpecGuard == InitGuard /\ [][NextGuard]_vars

-----------------------------------------------------------------------------
(***************************************************************************)
(* Properties of the file store.                                           *)
(***************************************************************************)

\* C1: for every user whose quota has not been changed, in every reachable
\* state of any interleaving of save_file, save_json and delete_file calls,
\* the sum of size_bytes over the user's rows is at most the user's quota.
C1_QuotaRespected ==
    \A u \in Users : ~quotaChanged[u] => get_used_space(u) <= get_quota(u)

\* Two uploads of one user that do not fit together are in flight: one
\* holds the user's lock in front of its INSERT, the other waits for the lock.
C1_Witness ==
    \E u \in Users : \E t1, t2 \in Threads :
        /\ t1 # t2
        /\ ~quotaChanged[u]
        /\ th[t1].pc = "insert" /\ th[t1].user = u
        /\ th[t2].pc = "acquire" /\ th[t2].user = u
        /\ get_used_space(u) + th[t1].size + th[t2].size > get_quota(u)

\* C9: for every stored file whose owner is null and every user u,
\* delete_file(f, u) and update_file(f, u, ...) fail, and the row, its
\* description and metadata and the on-disk file stay as they are.
C9_DefaultFilesImmutable ==
    [][\A t \in Threads, f \in FileIds, u \in Users :
         (rows[f] # NoRow /\ rows[f].user_id = NULL) =>
            /\ DeleteBegin(t, f, u) =>
                 /\ ret'.val \in {"False", "ValueError"}
                 /\ th'[t].pc = "idle"
                 /\ rows' = rows /\ disk' = disk
            /\ \A d \in Descriptions \cup {NULL}, m \in Metadatas \cup {NULL} :
                 UpdateFile(t, f, u, d, m) =>
                    /\ ret'.val = "False"
                    /\ rows' = rows /\ disk' = disk]_vars

\* delete_file on the demo file has raised for a user; row and file remain.
C9_Witness ==
    /\ ret.op = "delete_file" /\ ret.file = DefaultFile /\ ret.user \in Users
    /\ ret.val = "ValueError"
    /\ rows[DefaultFile] # NoRow /\ rows[DefaultFile].user_id = NULL
    /\ disk[DefaultFile] # NoFile

\* C10: for distinct users A and B and a file f owned by B, get_file,
\* get_file_path, read_json, update_file and delete_file called on f with A
\* as the user report absence or failure, return nothing of f, and leave
\* f's row and on-disk file unchanged.
C10_OwnerIsolation ==
    [][\A t \in Threads, f \in FileIds, A \in Users :
         (rows[f] # NoRow /\ rows[f].user_id \in Users \ {A}) =>
            /\ \A op \in {"get_file", "get_file_path", "read_json"} :
                 ReadFile(t, op, f, A) => ret'.val = "None"
            /\ \A d \in Descriptions \cup {NULL}, m \in Metadatas \cup {NULL} :
                 UpdateFile(t, f, A, d, m) =>
                    ret'.val = "False" /\ rows' = rows /\ disk' = disk
            /\ DeleteBegin(t, f, A) =>
                 /\ ret'.val = "False" /\ th'[t].pc = "idle"
                 /\ rows' = rows /\ disk' = disk]_vars

\* A has asked for the JSON content of a file of B and got None.
C10_Witness ==
    \E f \in FileIds :
        /\ ret.op = "read_json" /\ ret.file = f /\ ret.user = "A"
        /\ ret.val = "None"
        /\ rows[f] # NoRow /\ rows[f].user_id = "B" /\ disk[f] # NoFile

-----------------------------------------------------------------------------
(***************************************************************************)
(* Properties of the session store and of the rate limiter.                *)
(***************************************************************************)

\* C2: for every token string t and stored session s, get_session(t)
\* returns s if and only if t equals s.token and now < s.expires_at; in
\* every other case the caller sees absence (None).
C2_GetSessionIffValid ==
    [][\A token \in BearerTokens :
         GetSession(token) =>
            IF /\ token \in Tokens
               /\ sessions[token] # NoSession
               /\ now < sessions[token].expires_at
            THEN s_ret'.val = "session" /\ s_ret'.session = sessions[token]
            ELSE s_ret'.val = "None"]_vars

\* C3 (as stated): once K record_attempt calls have been made on a key
\* within W without an intervening reset, the key is in lockout: until L
\* seconds have elapsed since then, every record_attempt returns (false, 0)
\* and is_locked returns (true, r) with r <= L.
C3_LockoutAfterKCalls ==
    (InPeriod(began, now) /\ rl_ret.key = Observed /\ rl_ret.at >= began) =>
        /\ rl_ret.op = "record_attempt" => (~rl_ret.ok /\ rl_ret.n = 0)
        /\ rl_ret.op = "is_locked" => (rl_ret.ok /\ rl_ret.n <= RATE_LIMIT_LOCKOUT)

\* C3 (amended): once K record_attempt calls that no lockout refused have
\* been made on a key less than W seconds apart without an intervening
\* reset, the key is in lockout from the K-th of them: until L seconds have
\* elapsed since that call or reset is called, every record_attempt (the
\* K-th included) returns (false, 0) and is_locked returns (true, r), r <= L.
C3_LockoutAfterKAcceptedCalls ==
    (InPeriod(goodBegan, now) /\ rl_ret.key = Observed /\ rl_ret.at >= goodBegan) =>
        /\ rl_ret.op = "record_attempt" => (~rl_ret.ok /\ rl_ret.n = 0)
        /\ rl_ret.op = "is_locked" =>
              (rl_ret.ok /\ rl_ret.n <= RATE_LIMIT_LOCKOUT
               /\ rl_ret.n = goodBegan + RATE_LIMIT_LOCKOUT - rl_ret.at)

\* The key was locked out by its K-th call and, later and less than L
\* seconds after it, is_locked has answered that it is.
C3_Witness ==
    /\ InPeriod(goodBegan, now) /\ now > goodBegan
    /\ rl_ret.op = "is_locked" /\ rl_ret.key = Observed /\ rl_ret.at = now
    /\ rl_ret.ok

-----------------------------------------------------------------------------
(***************************************************************************)
(* Properties of the sandbox.                                              *)
(***************************************************************************)

\* C4: for all code containing a deny-listed construct (an import outside
\* the allow-list, a call to a forbidden name, a forbidden attribute, a
\* double-underscore identifier outside the allowed ones, global / nonlocal,
\* async / await, or an oversize source), safe_execute returns
\* success=false and never starts a child process: validation completes
\* before any process is spawned.
C4_DenyListedNeverSpawns ==
    LET DenyListedStmt(node) ==
            \/ node.kind = "Import" /\ node.id \notin ALLOWED_MODULES
            \/ node.kind = "ImportFrom"
                 /\ (IF node.id # NULL THEN node.id ELSE node.aux)
                        \notin ALLOWED_MODULES
            \/ node.kind = "Call" /\ node.func = "Name"
                 /\ node.id \in FORBIDDEN_NAMES
            \/ node.kind = "Attribute" /\ node.id \in FORBIDDEN_ATTRS
            \/ node.kind = "Call" /\ node.func = "Attribute"
                 /\ node.id \in FORBIDDEN_ATTRS
            \/ \E id \in {node.id, node.aux} :
                 is_dunder(id) /\ id \notin allowed_dunders
            \/ node.kind \in {"Global", "Nonlocal", "AsyncFunctionDef",
                              "AsyncFor", "Await"}
        DenyListed(code) ==
            \/ code.length > MAX_CODE_LENGTH
            \/ \E i \in 1..Len(code.stmts) : DenyListedStmt(code.stmts[i])
    IN  (sb_pc # "idle" /\ DenyListed(sb_code)) =>
            /\ ~spawned
            /\ sb_pc = "returned" =>
                  (sb_result.raised = "none" /\ ~sb_result.success)

\* C5: if the child has not exited when the timeout has elapsed,
\* safe_execute terminates it (terminate, then kill if it is still alive),
\* returns success=false with an error containing "Timeout", and no child
\* process is alive once safe_execute has returned.
C5_TimeoutLeavesNoChild ==
    (sb_pc = "returned" /\ timed_out) =>
        /\ sb_result.raised = "none" /\ ~sb_result.success
        /\ sb_result.error = "Timeout"
        /\ ~is_alive

-----------------------------------------------------------------------------
(***************************************************************************)
(* Properties of the convert / concat tasks.                               *)
(***************************************************************************)

\* C6: for every convert or concat task, the status only moves
\* pending -> processing -> completed or failed: no step moves it backwards,
\* and no step changes the status of a completed or failed task.
C6_StatusMonotone ==
    [][\A id \in TaskIds :
          (/\ tasks[id] # NoTask
           /\ tasks'[id] # NoTask
           /\ tasks'[id].status # tasks[id].status)
          => <<tasks[id].status, tasks'[id].status>> \in
                {<<PENDING, PROCESSING>>, <<PROCESSING, COMPLETED>>,
                 <<PROCESSING, FAILED>>}]_vars

\* a conversion has completed and a concatenation has failed
C6_Witness ==
    /\ tasks["conv"].status = COMPLETED
    /\ tasks["concat"].status = FAILED

\* C7: for every task, on every path of convert (native export, manual
\* fallback) and of concat, the progress read by polling never decreases:
\* a poll may fall between any two updates, so no update of a record lowers
\* its progress.
C7_ProgressNonDecreasing ==
    [][\A id \in TaskIds :
          (tasks[id] # NoTask /\ tasks'[id] # NoTask)
          => tasks'[id].progress >= tasks[id].progress]_vars

\* C8: no task record older than the janitor horizon is still pending or
\* processing: every record that has existed for longer than the horizon is
\* completed or failed.
C8_OldTasksFinished ==
    \A id \in TaskIds :
        (/\ tasks[id] # NoTask
         /\ now - tasks[id].created_at > JANITOR_MAX_AGE_HOURS * 3600)
        => tasks[id].status \in {COMPLETED, FAILED}

-----------------------------------------------------------------------------
(***************************************************************************)
(* Properties of the accounts.                                             *)
(***************************************************************************)

\* C11: after a successful change_password by user u, every token of u
\* that existed before the call is absent, exactly one token of u is valid
\* (the freshly minted one), and no step of the call changes the session of
\* another user.
C11_PasswordChangeRotatesTokens ==
    [][\A r \in Reqs :
          /\ (req[r].op = "change_password" /\ MintSession(r)
                /\ a_ret'.status = 200)
             => /\ \A t \in req[r].before : sessions'[t] = NoSession
                /\ {t \in DOMAIN sessions : sessions'[t].user_id = req[r].who}
                       = {a_ret'.token}
          /\ (ChangePasswordUpdate(r) \/ ChangePasswordDelete(r)
                \/ (req[r].op = "change_password" /\ MintSession(r)))
             => \A t \in DOMAIN sessions :
                   (sessions[t] # NoSession /\ sessions[t].user_id # req[r].who)
                   => sessions'[t] = sessions[t]]_vars

\* C12: starting from an empty users table, in any interleaving of register
\* requests, exactly one registered user has been given role admin and
\* every other one role user.
C12_OneAdminRegistered ==
    (\E u \in Users : accounts[u] # NoAccount)
    => Cardinality({u \in Users : accounts[u].role = "admin"}) = 1

\* C13: once some user has role admin, every reachable state has at least
\* one user with role admin, under any interleaving of update_user and
\* delete_user requests.
C13_AdminRemains ==
    \E u \in Users : accounts[u] # NoAccount /\ accounts[u].role = "admin"

-----------------------------------------------------------------------------
(***************************************************************************)
(* Properties of the downsampler.                                          *)
(***************************************************************************)

\* C15 as stated: for every input of length len and every target N the
\* arrays lttb_downsample returns both have min(N, len) elements.
C15_LengthIsMin ==
    lttb_call.returned =>
        /\ Len(lttb_call.out.x) = Min(lttb_call.threshold, Len(lttb_call.x))
        /\ Len(lttb_call.out.y) = Min(lttb_call.threshold, Len(lttb_call.x))

\* C15 amended: for a target N above 2 both arrays have min(N, len)
\* elements; for a target N of 2 or less the input is returned unchanged.
C15_LengthIsMinAboveTwo ==
    lttb_call.returned =>
        IF lttb_call.threshold > 2
        THEN /\ Len(lttb_call.out.x) = Min(lttb_call.threshold, Len(lttb_call.x))
             /\ Len(lttb_call.out.y) = Min(lttb_call.threshold, Len(lttb_call.x))
        ELSE /\ lttb_call.out.x = lttb_call.x
             /\ lttb_call.out.y = lttb_call.y

\* a call that reduced a series of more than N samples to N > 2 samples
C15_Witness ==
    /\ lttb_call.returned
    /\ lttb_call.threshold > 2
    /\ Len(lttb_call.x) > lttb_call.threshold
    /\ Len(lttb_call.out.x) = lttb_call.threshold

\* C16: the output of lttb_downsample is the input taken at strictly
\* increasing indices (no index twice), and for a non-empty input it starts
\* with the first sample and ends with the last one.
C16_SubsequenceInOrder ==
    lttb_call.returned =>
        LET out == lttb_call.out
            m == Len(out.x)
            n == Len(lttb_call.x)
        IN /\ Len(out.y) = m
           /\ \A k \in 1..m :
                /\ out.idx[k] \in 0..(n - 1)
                /\ out.x[k] = lttb_call.x[out.idx[k] + 1]
                /\ out.y[k] = lttb_call.y[out.idx[k] + 1]
           /\ \A k \in 1..(m - 1) : out.idx[k] < out.idx[k + 1]
           /\ n > 0 => /\ m > 0
                       /\ out.idx[1] = 0
                       /\ out.idx[m] = n - 1

-----------------------------------------------------------------------------
(***************************************************************************)
(* Properties of the view engine and of the lazy sessions.                 *)
(***************************************************************************)

\* C14: for a listed lazy session, the timestamps and values a view returns
\* for signal k are those the same clip and LTTB(N) give on the signal of
\* the same name of the eagerly loaded recording.
C14_LazyEqualsEager ==
    (view_ret.route = "eda_view" /\ view_ret.ran) =>
        LET s == lazy[find_session(lazy, view_ret.sid)]
            eager == load_mf4_with_dbc(s.rec)
        IN s.listed =>
            \A j \in 1..Len(view_ret.indices) :
                LET k == view_ret.indices[j]
                    known == /\ k \in 0..(Len(s.signals) - 1)
                             /\ \E e \in 1..Len(eager) :
                                    eager[e].name = s.signals[k + 1].name
                    e == CHOOSE e \in 1..Len(eager) :
                            eager[e].name = s.signals[k + 1].name
                    want == view_loop(view_ret.impl, <<e - 1>>, eager,
                                      view_ret.t0, view_ret.t1, view_ret.limit)
                    got == SelectSeq(view_ret.result.signals,
                                     LAMBDA r : r.index = k)
                IN known =>
                    /\ Len(want) = 0 <=> Len(got) = 0
                    /\ \A g \in 1..Len(got) :
                        /\ got[g].timestamps = want[1].timestamps
                        /\ got[g].values = want[1].values

\* C17: each signal of a view with effective limit M that has c samples in
\* [t0, t1] comes with all c samples and is_complete true when c <= M, with
\* at most M points and is_complete false when c > M, and with the min and
\* max of the c samples; original_points and returned_points are the sums
\* of c and of the returned counts over the returned signals.
C17_ViewContents ==
    view_ret.ran =>
        LET M == view_ret.limit
            src == IF view_ret.route = "view" THEN store_signals(datastore)
                   ELSE lazy[find_session(lazy, view_ret.sid)].signals
            entries == view_ret.result.signals
            inside(r) == {i \in 1..Len(src[r.index + 1].timestamps) :
                            /\ src[r.index + 1].timestamps[i] >= view_ret.t0
                            /\ src[r.index + 1].timestamps[i] <= view_ret.t1}
            c(r) == Cardinality(inside(r))
            counts == [e \in 1..Len(entries) |->
                        [c |-> c(entries[e]),
                         n |-> Len(entries[e].timestamps)]]
        IN /\ \A e \in 1..Len(entries) :
                LET r == entries[e]
                    sig == src[r.index + 1]
                IN /\ Len(r.values) = Len(r.timestamps)
                   /\ c(r) <= M =>
                        /\ r.is_complete
                        /\ r.timestamps = clip(sig, view_ret.t0, view_ret.t1).timestamps
                        /\ r.values = clip(sig, view_ret.t0, view_ret.t1).values
                   /\ c(r) > M =>
                        /\ ~r.is_complete
                        /\ Len(r.timestamps) <= M
                   /\ \E i \in inside(r) : sig.values[i] = r.min
                   /\ \E i \in inside(r) : sig.values[i] = r.max
                   /\ \A i \in inside(r) :
                        r.min <= sig.values[i] /\ sig.values[i] <= r.max
           /\ view_ret.result.original_points = sum_of(counts, "c")
           /\ view_ret.result.returned_points = sum_of(counts, "n")

\* a view of two signals, one returned whole and one downsampled
C17_Witness ==
    /\ view_ret.ran
    /\ view_ret.status = 200
    /\ \E e \in 1..Len(view_ret.result.signals) :
            /\ ~view_ret.result.signals[e].is_complete
            /\ Len(view_ret.result.signals[e].timestamps) = view_ret.limit
    /\ \E e \in 1..Len(view_ret.result.signals) :
            /\ view_ret.result.signals[e].is_complete
            /\ Len(view_ret.result.signals[e].timestamps) > 1

\* C18: whatever the signals and max_points parameters are, a view request
\* processes at most 50 signals and runs with max_points in [100, 10000].
C18_ViewCaps ==
    view_ret.ran =>
        /\ Len(view_ret.indices) <= MAX_VIEW_SIGNALS
        /\ view_ret.limit >= MIN_POINTS
        /\ view_ret.limit <= MAX_POINTS

\* C19: the number of live lazy sessions never exceeds max_sessions.
C19_SessionCap == Len(lazy) <= max_sessions

\* C20: no get_session, list_signals, preload_signal or view is served on a
\* session whose last access is older than the idle timeout.
C20_ExpiredNotServed ==
    (/\ lazy_ret.op \in {"get_session", "list_signals", "preload_signal", "view"}
     /\ lazy_ret.served)
        => lazy_ret.idle <= session_timeout

\* C22: with a quota of 10 MiB of which 9 MiB are used, once the two
\* concurrent uploads of 2 MiB have returned exactly one file has been
\* stored, the call that returned last was refused with "Quota dépassé" or
\* stored its file, and at most 10 MiB are stored.
C22_ExactlyOneAccepted ==
    (rows[1].size_bytes = 9 /\ \A t \in Threads : th[t].pc = "idle") =>
        /\ Cardinality({f \in FileIds : f > 1 /\ rows[f] # NoRow}) = 1
        /\ ret.val \in {"Quota dépassé", "stored"}
        /\ get_used_space("A") <= 10

\* C22 (amended): with 9 MiB used, each of the two uploads of 2 MiB is
\* refused with "Quota dépassé" and nothing is stored; with 8 MiB used,
\* exactly one of them is stored and the other one is refused with "Quota
\* dépassé"; at most 10 MiB are stored at any time.
C22_OneAcceptedIfItFits ==
    LET stored == Cardinality({f \in FileIds : f > 1 /\ rows[f] # NoRow})
        done == \A t \in Threads : th[t].pc = "idle"
    IN /\ get_used_space("A") <= 10
       /\ ret # NoCall => ret.val \in {"Quota dépassé", "stored"}
       /\ rows[1].size_bytes = 9 =>
            /\ stored = 0
            /\ ret # NoCall => ret.val = "Quota dépassé"
       /\ rows[1].size_bytes = 8 =>
            /\ stored <= 1
            /\ done => stored = 1
            /\ (done /\ ret.val = "stored") => nextId = 2

\* both uploads have returned, 9 MiB were used, both were refused
C22_Witness ==
    /\ rows[1].size_bytes = 9
    /\ \A t \in Threads : th[t].pc = "idle"
    /\ ret.val = "Quota dépassé"
    /\ get_used_space("A") = 9

\* C23: a sweep of the janitor loop removes the record of a convert task
\* only when the task is more than 24 h old, and the record of a concat
\* task only when it is more than 1 h old.
C23_JanitorHorizons ==
    [][\A id \in TaskIds :
          (next_sweep' # next_sweep /\ tasks[id] # NoTask /\ tasks'[id] = NoTask) =>
              now - tasks[id].created_at >
                  (IF Kind(id) = "convert" THEN 24 ELSE 1) * 3600]_vars

\* C24: once the worker of the concat task has ended, with the COMPLETED
\* update or with the FAILED one, no temporary filtered file of the task is
\* on disk.
C24_NoTempFileLeft ==
    worker["concat"].pc \in {COMPLETED, FAILED} => filtered_files = {}

\* C25: the files of the default directories are at any time the ones the
\* server started with, and an update or a delete request on the id of a
\* default script or of a demo layout is not answered with a success.
C25_DefaultsUntouched ==
    /\ \A kind \in DocKinds, id \in DocIds :
            docs[kind][DefaultDir][id] =
                (IF id = (IF kind = "scripts" THEN "script_demo" ELSE "demo_obd2")
                 THEN "demo" ELSE NoFile)
    /\ (/\ doc_ret.op \in {"update_script", "delete_script",
                           "update_layout", "delete_layout"}
        /\ doc_ret.id \in DefaultIds) => doc_ret.status \in {400, 403, 404}

\* a user who has files of their own has been refused the update of the
\* default script
C25_Witness ==
    /\ doc_ret.op = "update_script"
    /\ doc_ret.id = "script_demo"
    /\ doc_ret.status = 403
    /\ docs["scripts"][doc_ret.user]["script_1a2b3c4d"] # NoFile

\* the levels at which a value holds values, itself being at level
RECURSIVE Levels(_, _)
Levels(obj, level) ==
    {level} \cup UNION {Levels(obj.items[i], level + 1) : i \in 1..Len(obj.items)}

\* the depth of a document: the deepest level at which it holds a value
Height(obj) ==
    LET levels == Levels(obj, 0)
    IN CHOOSE l \in levels : \A k \in levels : k <= l

C27_OnlyAllowListed ==
    f_pc = "eval" =>
        /\ \A i \in 1..Len(formula) : formula[i] # Dot
        /\ ~matches_forbidden(formula)
        /\ \A r \in reached : r[1] = "name" /\ r[2] \in ALLOWED_FUNCTIONS \cup signal_data

\* C28: each is_safe_path answers true only for a path whose canonical form
\* is the directory or has the directory's components as its first ones, and
\* the answers of server.py, user_storage.py and scripts_api.py are the
\* answer of core/security.py.
C28_SamePathAnswer ==
    LET base == resolve(base_dir)
        requested == resolve(requested_path)
        inside == /\ Len(base) <= Len(requested)
                  /\ \A i \in 1..Len(base) : requested[i] = base[i]
    IN \A mod \in PathModules :
        /\ safe_ret[mod] = "true" => inside
        /\ safe_ret[mod] # "none" /\ safe_ret["core.security"] # "none"
              => safe_ret[mod] = safe_ret["core.security"]

\* C29: request_buffer never holds more than buffer_max_size entries, and
\* every call of record_request returns.
C29_RecordReturns ==
    /\ [](request_buffer <= buffer_max_size)
    /\ \A t \in RequestThreads : (m_pc[t] = "acquire") ~> (m_pc[t] = "idle")

\* C30: under every interleaving of list_signals, preload_signal and
\* close_session on one session, at most one decoder handle is open, and
\* once the session is listed n_signals is the number of entries of signals
\* and no name is twice in signal_names.
C30_AsIfSerialized ==
    /\ Cardinality(ls_open) <= 1
    /\ ls_session.listed =>
          /\ ls_session.n_signals = Len(ls_session.signals)
          /\ \A i, j \in 1..Len(ls_session.signal_names) :
                ls_session.signal_names[i] = ls_session.signal_names[j] => i = j

\* C31: a record_attempt on a key that is not in lockout, the c-th of the
\* calls made on the key less than W seconds before it and since the key's
\* last lockout ended or the key was reset, returns (true, K - c) when
\* c < K; and after the call no attempt kept for the key is W seconds old
\* or older.
C31_RemainingAttempts ==
    (rl_ret.op = "record_attempt" /\ rl_ret.key = Observed) =>
        /\ (~InPeriod(goodBegan, rl_ret.at) /\ Len(good) < RATE_LIMIT_MAX_ATTEMPTS) =>
              /\ rl_ret.ok
              /\ rl_ret.n = RATE_LIMIT_MAX_ATTEMPTS - Len(good)
        /\ \A i \in 1..Len(attempts[Observed]) :
              attempts[Observed][i] > rl_ret.at - RATE_LIMIT_WINDOW

\* the window has slid past the first calls on the key, and a call has been
\* answered with what is left after those still in the window
C31_Witness ==
    /\ rl_ret.op = "record_attempt" /\ rl_ret.key = Observed
    /\ rl_ret.at > RATE_LIMIT_WINDOW
    /\ ~InPeriod(goodBegan, rl_ret.at)
    /\ Len(good) = 2
    /\ rl_ret.ok /\ rl_ret.n = RATE_LIMIT_MAX_ATTEMPTS - 2

\* C32: for 2 < N < len, with the input indices 1..len-2 cut into N-2
\* consecutive buckets of size (len-2)/(N-2), bucket i being
\* [int((i-1)*size)+1, int(i*size)+1), the i-th middle output point of
\* lttb_downsample is a sample of bucket i, and of the samples of bucket i
\* it is the first whose triangle with the point kept before it and the
\* average of bucket i+1 (the last sample after the last bucket) is largest.
C32_BucketsPartition ==
    (/\ lttb_call.returned
     /\ lttb_call.threshold > 2
     /\ lttb_call.threshold < Len(lttb_call.x)) =>
        LET x == asarray_f32(lttb_call.x)
            y == asarray_f32(lttb_call.y)
            n == Len(x)
            N == lttb_call.threshold
            idx == lttb_call.out.idx
            lo(i) == bucket_edge(i - 1, n, N) + 1
            hi(i) == bucket_edge(i, n, N) + 1
            centroid(i) ==
                IF i = N - 2 THEN [cnt |-> 1, sx |-> x[n], sy |-> y[n]]
                ELSE [cnt |-> hi(i + 1) - lo(i + 1),
                      sx |-> sum_range(x, lo(i + 1), hi(i + 1)),
                      sy |-> sum_range(y, lo(i + 1), hi(i + 1))]
        IN \A i \in 1..(N - 2) :
            /\ idx[i + 1] \in lo(i)..(hi(i) - 1)
            /\ \A k \in lo(i)..(hi(i) - 1) :
                 \/ area(x, y, idx[i], centroid(i), k)
                      < area(x, y, idx[i], centroid(i), idx[i + 1])
                 \/ /\ area(x, y, idx[i], centroid(i), k)
                         = area(x, y, idx[i], centroid(i), idx[i + 1])
                    /\ idx[i + 1] <= k

\* C33: when validated code has finished in the child and the worker has
\* put its outcome while safe_execute was still in join(timeout_seconds),
\* safe_execute returns that outcome: the success flag and the error put,
\* not Timeout and not the error of an empty queue.
C33_ReportedOutcomeReturned ==
    LET outcome == IF sb_put # NoPut THEN sb_put.outcome ELSE sb_queue
    IN (/\ sb_pc = "returned"
        /\ spawned
        /\ \/ sb_put.in_time
           \/ sb_queue # "empty" /\ ~timed_out) =>
            sb_result = Result("none", outcome = "success",
                               IF outcome = "success" THEN "none" ELSE "Exception")

\* C34: code that uses only allow-listed modules and builtins and assigns
\* __result__ is accepted by the validator and executed: safe_execute does
\* not return before it has started the child, and what it returns when the
\* child has put a success is success=true.
C34_ResultHandedBack ==
    LET Plain == {Node("Import", "math", NULL, NULL),
                  Node("ImportFrom", "math", "sqrt", NULL),
                  Node("Call", "len", NULL, "Name"),
                  Node("Attribute", "shape", "x", NULL),
                  Node("Name", "x", NULL, NULL)}
        HandsBack == Node("Assign", "__result__", NULL, NULL)
        code == sb_code
    IN (/\ sb_pc = "returned"
        /\ code.length <= MAX_CODE_LENGTH /\ code.parses /\ ~code.deep
        /\ code.more_nodes = 0
        /\ \E i \in 1..Len(code.stmts) : code.stmts[i] = HandsBack
        /\ \A i \in 1..Len(code.stmts) : code.stmts[i] \in Plain \cup {HandsBack}) =>
            /\ spawned
            /\ (sb_queue = "success" /\ ~timed_out) => sb_result.success

\* C35: a task record is removed (by a sweep of the janitor or by the
\* cleanup route, both of which call cleanup_old_tasks) only when the task
\* is completed or failed: the record of a pending or processing task stays.
C35_OnlyFinishedRemoved ==
    [][\A id \in TaskIds :
          (tasks[id] # NoTask /\ tasks'[id] = NoTask) =>
              tasks[id].status \in {COMPLETED, FAILED}]_vars

\* C36: the signals of a session that list_signals has just listed are all
\* unloaded and hold no timestamps and no values; and a step in which a
\* signal of a session becomes loaded is a preload_signal called for its
\* index or a view that asks for its index.
C36_LoadedOnlyWhenTargeted ==
    [][\A sid \in SessionIds :
         LET i == find_session(lazy, sid)
             j == find_session(lazy', sid)
         IN (i # 0 /\ j # 0) =>
              /\ (~lazy[i].listed /\ lazy'[j].listed) =>
                    \A k \in 1..Len(lazy'[j].signals) :
                        /\ ~lazy'[j].signals[k].loaded
                        /\ lazy'[j].signals[k].timestamps = << >>
                        /\ lazy'[j].signals[k].values = << >>
              /\ lazy[i].listed =>
                    \A k \in 1..Len(lazy'[j].signals) :
                        (lazy'[j].signals[k].loaded /\ ~lazy[i].signals[k].loaded) =>
                            \/ /\ lazy_ret'.op = "preload_signal"
                               /\ lazy_ret'.sid = sid
                               /\ lazy_ret'.index = k - 1
                            \/ /\ lazy_ret'.op = "view"
                               /\ lazy_ret'.sid = sid
                               /\ LET idx == signal_indices("eda_view", view_ret.signals, 0)
                                  IN idx.ok /\ \E n \in 1..Len(idx.val) : idx.val[n] = k - 1]_vars

\* a session is listed, its signal 0 has been loaded by a preload_signal
\* and another signal of it is still unloaded
C36_Witness ==
    /\ Len(lazy) > 0
    /\ lazy[1].listed
    /\ Len(lazy[1].signals) >= 2
    /\ lazy[1].signals[1].loaded
    /\ ~lazy[1].signals[2].loaded
    /\ lazy_ret.op = "preload_signal" /\ lazy_ret.index = 0

\* C37: every open decoder handle is the mdf_handle of the live session,
\* or was opened by a call of list_signals or preload_signal that has not
\* yet returned or raised.
C37_NoOrphanHandle ==
    \A h \in ls_open :
        \/ ls_th[h].pc # "idle"
        \/ ls_registered /\ ls_session.mdf_handle = h

\* C38: while the stored is_active of a user is false, a step leaves the
\* user's stored is_active and role as they are and no token authenticates
\* as the user after it, unless the step is the write of an update_user
\* request on that user.
C38_DeactivatedStays ==
    [][\A u \in Users :
         (accounts[u] # NoAccount /\ ~accounts[u].is_active) =>
            \/ /\ accounts'[u].is_active = accounts[u].is_active
               /\ accounts'[u].role = accounts[u].role
               /\ \A t \in TokenSet : get_current_user(t)' # u
            \/ \E r \in Reqs : /\ req[r].op = "update_user"
                               /\ req[r].pc = "write"
                               /\ req[r].target = u
                               /\ req'[r] = IdleReq]_vars

\* C39: when the change_password request of a user has returned and the
\* stored password is no longer the one a login request of that user has
\* verified, that login request creates no session.
C39_NoSessionFromOldPassword ==
    [][\A r \in Reqs :
         (/\ req[r].op = "login" /\ req[r].pc = "session"
          /\ a_ret.op = "change_password" /\ a_ret.status = 200
          /\ a_ret.who = req[r].who
          /\ req[r].obj.password # accounts[req[r].who].password) =>
            \A t \in TokenSet :
                (sessions'[t] # sessions[t]) => sessions'[t].user_id # req[r].who]_vars

\* C40: a run_script request on a script that exists and whose blocks pass
\* validate_blocks is answered with a success, and a script of the caller
\* then holds lastRun and lastRunStatus.
C40_ValidScriptRuns ==
    LET script == load_script(doc_ret.id, doc_ret.user)
    IN (/\ doc_ret.op = "run_script"
        /\ script # NoScript
        /\ validate_blocks(blocks_of(script.content))) =>
            /\ doc_ret.status = 200
            /\ script_writable(script, doc_ret.user) => script.content = "ran"

-----------------------------------------------------------------------------
(***************************************************************************)
(* Properties of the routes behind the rate limiter.                       *)
(***************************************************************************)

\* C21: a reset leaves the key with no attempt and no lockout, whatever its
\* state was; the call that follows a reset of a key returns (false, 0) if
\* it is is_locked and (true, K - 1) if it is record_attempt; and a login or
\* a register that answers 200 or 201 has called reset on its key.
C21_ResetClears ==
    [][/\ rl_ret'.op = "reset" =>
            /\ attempts'[rl_ret'.key] = << >>
            /\ lockouts'[rl_ret'.key] = NoTime
       /\ (rl_ret.op = "reset" /\ rl_ret'.key = rl_ret.key) =>
            /\ rl_ret'.op = "is_locked" => (~rl_ret'.ok /\ rl_ret'.n = 0)
            /\ rl_ret'.op = "record_attempt" =>
                    (rl_ret'.ok /\ rl_ret'.n = RATE_LIMIT_MAX_ATTEMPTS - 1)
       /\ \A r \in Reqs :
            guard'[r].status \in {200, 201} => guard'[r].did_reset]_vars

\* a login has reset its key while the key was locked out
C21_Witness ==
    \E r \in Reqs :
        /\ guard[r].route = "login"
        /\ guard[r].status = 200
        /\ guard[r].during
        /\ rl_ret.op = "reset"

=============================================================================
